---- MODULE Spec2Model ----
(***************************************************************************)
(* saws, command execution mode (-c): the account selector, the region     *)
(* resolver, the fan-out of one goroutine per (account, region), the       *)
(* per-unit role assumption and environment-isolated subprocess, and the   *)
(* final verdict; and the single-target session modes (-e, -ssm, -ecs):    *)
(* the selection of account, role and region, the one role assumption and  *)
(* the interactive subprocess.                                             *)
(*                                                                         *)
(* Strings are sequences of tokens.  A token is a character (",", " ",     *)
(* "*", "[", "-", "=") or a run of characters that is never split and is   *)
(* no substring of another token ("dev", "prod", "AWS_REGION", ...), so    *)
(* prefix tests, splitting, trimming, glob matching and byte-wise sorting  *)
(* on token sequences agree with the same operations on the Go strings.    *)
(***************************************************************************)
EXTENDS Integers, Sequences, FiniteSets, TLC

\* ------------------------------------------------------------------ bounds
\* most units (accounts x regions) of one run
MaxUnits == 2
\* most units of a run whose command prints to its stdout or stderr
MaxLoudUnits == 1
\* most words the -s selector is put together from
MaxSelParts == 3
\* most entries of the parent environment
MaxEnvLen == 3
\* most words the -regions value is put together from
MaxRegionParts == 3

VARIABLES
    verbose,              \* pkg.VerboseMode (-v)
    processAll,           \* -a
    selector,             \* -s
    cmdRegionsStr,        \* -regions
    lookPathOk,           \* exec.LookPath("aws") succeeded
    ambient,              \* what awsconfig.LoadDefaultConfig yields for the default profile
    baseCfgOk,            \* the base AWS configuration loads
    accounts,             \* appConfig.Accounts: friendly name -> account id
    environ,              \* os.Environ() of the saws process
    configFileOverride,   \* -config
    homeDirOk,            \* os.UserHomeDir() succeeds
    fileExists,           \* the paths os.Stat finds
    configLoads,          \* pkg.LoadConfig reads and accepts the file it is given
    sawsAccountEnv,       \* SAWS_ACCOUNT
    roles,                \* appConfig.Roles: friendly name -> actual role name
    roleCmd,              \* -r
    sawsRoleEnv,          \* SAWS_ROLE
    contextRegionFlag,    \* -region
    sawsRegionEnv,        \* SAWS_REGION
    commonRegions,        \* appConfig.CommonRegions
    sessionMode,          \* "c", or the single-target mode: "e", "ssm", "ecs"
    sessionNameSuffix,    \* pkg.AssumeRole, parameter
    roleToAssume,         \* pkg.AssumeRole, parameter
    pid,                  \* os.Getpid()
    pc,                   \* where main is
    sawsConfigPath,       \* what pkg.FindConfigPath returned
    probed,               \* main asked awsconfig.LoadDefaultConfig for the default region
    matchedAccountNames,  \* EstablishAWSContextAndAssumeRole
    selectedAccountName,  \* EstablishAWSContextAndAssumeRole
    selectedRoleName,     \* EstablishAWSContextAndAssumeRole
    selectedRegion,       \* EstablishAWSContextAndAssumeRole
    prompted,             \* the survey prompts shown so far, in order
    sessionAssumeCalls,   \* calls of pkg.AssumeRole by the single-target flow
    sessionCreds,         \* finalCreds of EstablishAWSContextAndAssumeRole
    subprocess,           \* the interactive subprocess: "none", "started"
    sessionName,          \* pkg.AssumeRole, sessionName
    targetRegionsCmd,
    targetAccountNames,
    totalExecutions,
    spawned,              \* number of iterations of the spawn loop done
    wg,                   \* sync.WaitGroup counter
    successfulExecutions, \* atomic.Int64
    finalSuccessCount,
    exitCode,             \* os.Exit code, -1 while the process runs
    exitMsg,              \* what main wrote last before exiting
    workers,              \* the goroutines running ProcessAccountRegion, in spawn order
    stdout,               \* the writes to os.Stdout, in order
    logOut                \* the lines the log package wrote (log.Printf)

vars == <<verbose, processAll, selector, cmdRegionsStr, lookPathOk, ambient, baseCfgOk,
          accounts, environ, configFileOverride, homeDirOk, fileExists, configLoads,
          sawsAccountEnv, roles, roleCmd, sawsRoleEnv, contextRegionFlag, sawsRegionEnv,
          commonRegions, sessionMode, sessionNameSuffix, roleToAssume, pid,
          sawsConfigPath, probed, matchedAccountNames, selectedAccountName,
          selectedRoleName, selectedRegion, prompted, sessionAssumeCalls, sessionCreds,
          subprocess, sessionName,
          pc, targetRegionsCmd, targetAccountNames, totalExecutions, spawned,
          wg, successfulExecutions, finalSuccessCount, exitCode, exitMsg, workers, stdout, logOut>>

inputs == <<verbose, processAll, selector, cmdRegionsStr, lookPathOk, ambient, baseCfgOk,
            accounts, environ, configFileOverride, homeDirOk, fileExists, configLoads,
            sawsAccountEnv, roles, roleCmd, sawsRoleEnv, contextRegionFlag, sawsRegionEnv,
            commonRegions, sessionMode, sessionNameSuffix, roleToAssume, pid>>

\* the locals of the single-target flow (-e, -ssm, -ecs)
singleTarget == <<matchedAccountNames, selectedAccountName>>

\* what the single-target flow settles after the account, and its session
session == <<selectedRoleName, selectedRegion, prompted, sessionAssumeCalls, sessionCreds,
             subprocess, sessionName>>

\* ------------------------------------------------------------ Go strings
RECURSIVE Concat(_)
Concat(ss) == IF ss = <<>> THEN <<>> ELSE Head(ss) \o Concat(Tail(ss))

HasPrefix(s, prefix) ==
    /\ Len(s) >= Len(prefix)
    /\ SubSeq(s, 1, Len(prefix)) = prefix

RECURSIVE Split(_, _)
Split(s, sep) ==
    IF \E i \in 1..Len(s) : s[i] = sep
    THEN LET i == CHOOSE k \in 1..Len(s) : s[k] = sep /\ \A j \in 1..(k - 1) : s[j] # sep
         IN  <<SubSeq(s, 1, i - 1)>> \o Split(SubSeq(s, i + 1, Len(s)), sep)
    ELSE <<s>>

RECURSIVE TrimLeft(_)
TrimLeft(s) == IF s # <<>> /\ Head(s) = " " THEN TrimLeft(Tail(s)) ELSE s

RECURSIVE TrimRight(_)
TrimRight(s) ==
    IF s # <<>> /\ s[Len(s)] = " " THEN TrimRight(SubSeq(s, 1, Len(s) - 1)) ELSE s

TrimSpace(s) == TrimRight(TrimLeft(s))

\* the tokens in byte order of their first character
TokenOrder == <<" ", "*", ",", "-", "2", "[", "a", "b", "dev", "prod">>

Rank(t) == CHOOSE i \in DOMAIN TokenOrder : TokenOrder[i] = t

RECURSIVE StrLess(_, _)
StrLess(a, b) ==
    IF a = <<>> THEN b # <<>>
    ELSE IF b = <<>> THEN FALSE
    ELSE IF Head(a) = Head(b) THEN StrLess(Tail(a), Tail(b))
    ELSE Rank(Head(a)) < Rank(Head(b))

\* SortStrings with the comparison turned round
RECURSIVE SortStringsDescending(_)
SortStringsDescending(S) ==
    IF S = {} THEN <<>>
    ELSE LET m == CHOOSE x \in S : \A y \in S : x = y \/ StrLess(y, x)
         IN  <<m>> \o SortStringsDescending(S \ {m})

\* sort.Strings of a slice holding each element of S once
RECURSIVE SortStrings(_)
SortStrings(S) ==
    IF S = {} THEN <<>>
    ELSE LET m == CHOOSE x \in S : \A y \in S : x = y \/ StrLess(x, y)
         IN  <<m>> \o SortStrings(S \ {m})

Range(s) == {s[i] : i \in DOMAIN s}

\* ------------------------------------------------------- filepath.Match
\* The alphabet has "[" but no "]", "\" or "/": a pattern holding "[" opens a
\* character class that is never closed, which is filepath.ErrBadPattern.
BadPattern(pattern) == \E i \in DOMAIN pattern : pattern[i] = "["

RECURSIVE GlobMatch(_, _)
GlobMatch(pattern, name) ==
    IF pattern = <<>> THEN name = <<>>
    ELSE IF Head(pattern) = "*"
         THEN \/ GlobMatch(Tail(pattern), name)
              \/ name # <<>> /\ GlobMatch(pattern, Tail(name))
    ELSE /\ name # <<>>
         /\ Head(name) = Head(pattern)
         /\ GlobMatch(Tail(pattern), Tail(name))

Match(pattern, name) ==
    IF BadPattern(pattern)
    THEN [match |-> FALSE, err |-> TRUE]
    ELSE [match |-> GlobMatch(pattern, name), err |-> FALSE]

\* --------------------------------------------------------- account selector
\* rawPatterns -> selectorPatterns: trimmed, empty ones dropped
RECURSIVE TrimmedNonEmpty(_)
TrimmedNonEmpty(raw) ==
    IF raw = <<>> THEN <<>>
    ELSE LET trimmed == TrimSpace(Head(raw))
         IN  IF trimmed # <<>>
             THEN <<trimmed>> \o TrimmedNonEmpty(Tail(raw))
             ELSE TrimmedNonEmpty(Tail(raw))

SelectorPatterns(sel) == TrimmedNonEmpty(Split(sel, ","))

\* AccountMatches with no account matched once a pattern of the list is invalid
AccountMatchesUnlessBadPattern(accName, patterns) ==
    /\ \A i \in DOMAIN patterns : ~Match(patterns[i], accName).err
    /\ \E i \in DOMAIN patterns : Match(patterns[i], accName).match

\* AccountMatches with the loop left at the first invalid pattern
RECURSIVE AccountMatchesStopAtBadPattern(_, _)
AccountMatchesStopAtBadPattern(accName, patterns) ==
    IF patterns = <<>> THEN FALSE
    ELSE LET m == Match(Head(patterns), accName)
         IN  IF m.err THEN FALSE
             ELSE IF m.match THEN TRUE
             ELSE AccountMatchesStopAtBadPattern(accName, Tail(patterns))

\* the inner loop over selectorPatterns for one account name
RECURSIVE AccountMatches(_, _)
AccountMatches(accName, patterns) ==
    IF patterns = <<>> THEN FALSE
    ELSE LET m == Match(Head(patterns), accName)
         IN  IF m.err THEN AccountMatches(accName, Tail(patterns))
             ELSE IF m.match THEN TRUE
             ELSE AccountMatches(accName, Tail(patterns))

AllAccountNamesSorted(accs) == SortStrings(DOMAIN accs)

\* MatchedAccountsMap with each pattern taken for the name of an account
MatchedAccountsMapOfPatterns(sel, accs) == Range(SelectorPatterns(sel))

MatchedAccountsMap(sel, accs) ==
    {accName \in Range(AllAccountNamesSorted(accs)) :
        AccountMatches(accName, SelectorPatterns(sel))}

\* ------------------------------------------------------------ main, step 2
DetermineAccounts ==
    /\ pc = "accounts"
    /\ IF processAll
       THEN /\ targetAccountNames' = AllAccountNamesSorted(accounts)
            /\ pc' = "baseCfg"
            /\ UNCHANGED <<exitCode, exitMsg>>
       ELSE IF SelectorPatterns(selector) = <<>>
       THEN /\ pc' = "exited"
            /\ exitCode' = 1
            /\ exitMsg' = [kind |-> "no valid names/patterns"]
            /\ UNCHANGED targetAccountNames
       ELSE /\ targetAccountNames' = SortStrings(MatchedAccountsMap(selector, accounts))
            /\ IF MatchedAccountsMap(selector, accounts) = {}
               THEN /\ pc' = "exited"
                    /\ exitCode' = 1
                    /\ exitMsg' = [kind |-> "no accounts found"]
               ELSE /\ pc' = "baseCfg"
                    /\ UNCHANGED <<exitCode, exitMsg>>
    /\ UNCHANGED <<inputs, session, sawsConfigPath, probed, singleTarget,
                   targetRegionsCmd, totalExecutions, spawned, wg,
                   successfulExecutions, finalSuccessCount, workers,
                   stdout, logOut>>

\* ------------------------------------ the single-target flow (-e, -ssm, -ecs)
\* currentAccountSelector: the -s flag, else SAWS_ACCOUNT
CurrentAccountSelector == IF selector # <<>> THEN selector ELSE sawsAccountEnv

\* the loop over allAccountNames: an exact name ends the loop with that name
\* alone, an invalid pattern is skipped, a glob match is appended
RECURSIVE MatchedAccountNamesFrom(_, _, _)
MatchedAccountNamesFrom(currentAccountSelector, names, matched) ==
    IF names = <<>> THEN matched
    ELSE IF currentAccountSelector = Head(names) THEN <<Head(names)>>
    ELSE LET m == Match(currentAccountSelector, Head(names))
         IN  IF ~m.err /\ m.match
             THEN MatchedAccountNamesFrom(currentAccountSelector, Tail(names),
                                          Append(matched, Head(names)))
             ELSE MatchedAccountNamesFrom(currentAccountSelector, Tail(names), matched)

\* EstablishAWSContextAndAssumeRole, up to the selector's matches
MatchAccounts ==
    /\ pc = "establish"
    /\ IF CurrentAccountSelector = <<>>
       THEN /\ pc' = "chooseAccount"
            /\ UNCHANGED <<matchedAccountNames, selectedAccountName, exitCode, exitMsg>>
       ELSE LET matched == MatchedAccountNamesFrom(CurrentAccountSelector,
                                                   AllAccountNamesSorted(accounts), <<>>)
            IN  /\ matchedAccountNames' = matched
                /\ IF Len(matched) = 1
                   THEN /\ selectedAccountName' = matched[1]
                        /\ pc' = "role"
                        /\ UNCHANGED <<exitCode, exitMsg>>
                   ELSE IF Len(matched) > 1
                   THEN /\ pc' = "chooseAccount"
                        /\ UNCHANGED <<selectedAccountName, exitCode, exitMsg>>
                   ELSE /\ pc' = "exited"
                        /\ exitCode' = 1
                        /\ exitMsg' = [kind |-> "selector did not match any accounts"]
                        /\ UNCHANGED selectedAccountName
    /\ UNCHANGED <<inputs, session, sawsConfigPath, probed, targetRegionsCmd, targetAccountNames,
                   totalExecutions, spawned, wg, successfulExecutions, finalSuccessCount,
                   workers, stdout, logOut>>

\* the names the account prompt offers
AccountOptions ==
    IF matchedAccountNames # <<>>
    THEN SortStrings(Range(matchedAccountNames))
    ELSE AllAccountNamesSorted(accounts)

\* survey.AskOne: the operator picks one of the options, or the prompt fails
ChooseAccount ==
    /\ pc = "chooseAccount"
    /\ prompted' = Append(prompted, "account")
    /\ \/ /\ \E i \in DOMAIN AccountOptions : selectedAccountName' = AccountOptions[i]
          /\ pc' = "role"
          /\ UNCHANGED <<exitCode, exitMsg>>
       \/ /\ pc' = "exited"
          /\ exitCode' = 1
          /\ exitMsg' = [kind |-> "account selection failed"]
          /\ UNCHANGED selectedAccountName
    /\ UNCHANGED <<inputs, selectedRoleName, selectedRegion, sessionAssumeCalls, sessionCreds,
                   subprocess, sessionName, sawsConfigPath, probed, matchedAccountNames,
                   targetRegionsCmd, targetAccountNames, totalExecutions, spawned, wg,
                   successfulExecutions, finalSuccessCount, workers, stdout, logOut>>

\* ------------------------------------------------- the configuration file
ConfigFileName == <<"saws-config.yaml">>

AWSConfigDir == <<".aws">>

\* what os.UserHomeDir() returns when it succeeds
HomeDir == <<"/home/u">>

\* filepath.Join(dir, rest): one separator between the two, none for an empty rest
JoinPath(dir, rest) ==
    LET r == IF rest # <<>> /\ Head(rest) = "/" THEN Tail(rest) ELSE rest
    IN  IF r = <<>> THEN dir ELSE dir \o <<"/">> \o r

\* os.Stat(path) returns no error
Stat(path) == path \in fileExists

\* expandedPath: a leading ~ is replaced by the home directory when there is one
ExpandedPath(configFileOverrideArg) ==
    IF HasPrefix(configFileOverrideArg, <<"~">>) /\ homeDirOk
    THEN JoinPath(HomeDir, Tail(configFileOverrideArg))
    ELSE configFileOverrideArg

HomeConfigPath == JoinPath(JoinPath(HomeDir, AWSConfigDir), ConfigFileName)

FindConfigPath(configFileOverrideArg) ==
    IF configFileOverrideArg # <<>>
    THEN IF Stat(ExpandedPath(configFileOverrideArg))
         THEN [path |-> ExpandedPath(configFileOverrideArg), err |-> FALSE]
         ELSE [path |-> <<>>, err |-> TRUE]
    ELSE IF homeDirOk /\ Stat(HomeConfigPath)
    THEN [path |-> HomeConfigPath, err |-> FALSE]
    ELSE IF Stat(ConfigFileName)
    THEN [path |-> ConfigFileName, err |-> FALSE]
    ELSE [path |-> <<>>, err |-> TRUE]

\* main: pkg.FindConfigPath, then pkg.LoadConfig; either error ends the run
LoadAppConfig ==
    /\ pc = "config"
    /\ sawsConfigPath' = FindConfigPath(configFileOverride).path
    /\ IF FindConfigPath(configFileOverride).err
       THEN /\ pc' = "exited"
            /\ exitCode' = 1
            /\ exitMsg' = [kind |-> "config not found"]
       ELSE IF ~configLoads
       THEN /\ pc' = "exited"
            /\ exitCode' = 1
            /\ exitMsg' = [kind |-> "config not loaded"]
       ELSE /\ pc' = "flags"
            /\ UNCHANGED <<exitCode, exitMsg>>
    /\ UNCHANGED <<inputs, session, probed, singleTarget, targetRegionsCmd, targetAccountNames,
                   totalExecutions, spawned, wg, successfulExecutions, finalSuccessCount,
                   workers, stdout, logOut>>

\* ------------------------------------------------------------ main, step 0
\* CheckFlags without the look for the aws executable
CheckFlagsWithoutLookPath ==
    /\ pc = "flags"
    /\ IF roleCmd = <<>> \/ (processAll /\ selector # <<>>) \/ (~processAll /\ selector = <<>>)
       THEN /\ pc' = "exited"
            /\ exitCode' = 1
            /\ exitMsg' = [kind |-> "usage"]
       ELSE /\ pc' = "regions"
            /\ UNCHANGED <<exitCode, exitMsg>>
    /\ UNCHANGED <<inputs, session, sawsConfigPath, probed, singleTarget, targetRegionsCmd,
                   targetAccountNames, totalExecutions, spawned, wg, successfulExecutions,
                   finalSuccessCount, workers, stdout, logOut>>

\* the flag checks of command mode
CheckFlags ==
    /\ pc = "flags"
    /\ IF roleCmd = <<>> \/ (processAll /\ selector # <<>>) \/ (~processAll /\ selector = <<>>)
       THEN /\ pc' = "exited"
            /\ exitCode' = 1
            /\ exitMsg' = [kind |-> "usage"]
       ELSE IF ~lookPathOk
       THEN /\ pc' = "exited"
            /\ exitCode' = 1
            /\ exitMsg' = [kind |-> "aws not found"]
       ELSE /\ pc' = "regions"
            /\ UNCHANGED <<exitCode, exitMsg>>
    /\ UNCHANGED <<inputs, session, sawsConfigPath, probed, singleTarget,
                   targetRegionsCmd, targetAccountNames, totalExecutions, spawned,
                   wg, successfulExecutions, finalSuccessCount, workers,
                   stdout, logOut>>

\* ------------------------------------------------------------ main, step 1
FallbackRegion == <<"eu-west-1">>

\* the regions of a -regions value that is not blank
\* ExplicitRegions with the entries taken as they are written
ExplicitRegionsAsWritten(regionsInput) == Split(regionsInput, ",")

ExplicitRegions(regionsInput) == TrimmedNonEmpty(Split(regionsInput, ","))

\* DefaultCmdRegion with the probe's answer left unused
DefaultCmdRegionWithoutProbe(probe) == FallbackRegion

\* the region of a run without -regions
DefaultCmdRegion(probe) ==
    IF probe.err THEN FallbackRegion
    ELSE IF probe.Region = <<>> THEN FallbackRegion
    ELSE probe.Region

DetermineRegions ==
    /\ pc = "regions"
    /\ LET regionsInput == TrimSpace(cmdRegionsStr)
       IN  IF regionsInput # <<>>
           THEN /\ targetRegionsCmd' = ExplicitRegions(regionsInput)
                /\ probed' = probed
                /\ IF ExplicitRegions(regionsInput) = <<>>
                   THEN /\ pc' = "exited"
                        /\ exitCode' = 1
                        /\ exitMsg' = [kind |-> "no valid region names"]
                   ELSE /\ pc' = "accounts"
                        /\ UNCHANGED <<exitCode, exitMsg>>
           ELSE /\ probed' = TRUE
                /\ targetRegionsCmd' = <<DefaultCmdRegion(ambient)>>
                /\ pc' = "accounts"
                /\ UNCHANGED <<exitCode, exitMsg>>
    /\ UNCHANGED <<inputs, session, sawsConfigPath, singleTarget, targetAccountNames, totalExecutions,
                   spawned, wg, successfulExecutions, finalSuccessCount, workers,
                   stdout, logOut>>

\* ------------------------------------------------------------ main, step 3
LoadBaseConfig ==
    /\ pc = "baseCfg"
    /\ IF ~baseCfgOk
       THEN /\ pc' = "exited"
            /\ exitCode' = 1
            /\ exitMsg' = [kind |-> "base AWS configuration"]
            /\ UNCHANGED totalExecutions
       ELSE /\ totalExecutions' = Len(targetAccountNames) * Len(targetRegionsCmd)
            /\ pc' = "spawn"
            /\ UNCHANGED <<exitCode, exitMsg>>
    /\ UNCHANGED <<inputs, session, sawsConfigPath, probed, singleTarget,
                   targetRegionsCmd, targetAccountNames, spawned, wg,
                   successfulExecutions, finalSuccessCount, workers,
                   stdout, logOut>>

\* ------------------------------------------------------------ main, step 4
NoCreds == [AccessKeyId |-> <<>>, SecretAccessKey |-> <<>>, SessionToken |-> <<>>]

\* cmd.Run() has not been called
NotRun == [err |-> "not run"]

\* the roles map of the README's example configuration
RunRoles ==
    [n \in {<<"Admin">>, <<"Developer">>} |->
        IF n = <<"Admin">> THEN <<"OrganizationAccountAccessRole">>
        ELSE <<"DeveloperAccessRole">>]

\* main runs command mode (-c): what only the single-target modes read is unset
CommandModeOnly ==
    /\ sessionMode = "c"
    /\ sawsRoleEnv = <<>>
    /\ contextRegionFlag = <<>>
    /\ sawsRegionEnv = <<>>
    /\ commonRegions = <<>>
    /\ sessionNameSuffix = <<>>
    /\ roleToAssume = <<>>
    /\ pid = 0

\* EstablishAWSContextAndAssumeRole has settled nothing yet
SessionIdle ==
    /\ selectedRoleName = <<>>
    /\ selectedRegion = <<>>
    /\ prompted = <<>>
    /\ sessionAssumeCalls = 0
    /\ sessionCreds = NoCreds
    /\ subprocess = "none"
    /\ sessionName = <<>>

\* the goroutine started by the k-th iteration of the nested loop
NewWorker(k) ==
    [accountName |-> targetAccountNames[((k - 1) \div Len(targetRegionsCmd)) + 1],
     region      |-> targetRegionsCmd[((k - 1) % Len(targetRegionsCmd)) + 1],
     roleToAssume |-> roleCmd,
     at          |-> "start",
     assumeCalls |-> 0,
     sts         |-> "none",
     creds       |-> NoCreds,
     env         |-> <<>>,
     exitCode    |-> 0,
     status      |-> "",
     ran         |-> NotRun,
     pending     |-> <<>>]

\* wg.Add(1); go saws.ProcessAccountRegion(...)
SpawnWorker ==
    /\ pc = "spawn"
    /\ spawned < totalExecutions
    /\ wg' = wg + 1
    /\ workers' = Append(workers, NewWorker(spawned + 1))
    /\ spawned' = spawned + 1
    /\ pc' = IF spawned + 1 = totalExecutions THEN "wait" ELSE "spawn"
    /\ UNCHANGED <<inputs, session, sawsConfigPath, probed, singleTarget,
                   targetRegionsCmd, targetAccountNames, totalExecutions,
                   successfulExecutions, finalSuccessCount, exitCode, exitMsg, stdout, logOut>>

\* WaitReturns with main going on while the counter of the wait group is not 0
WaitReturnsAtOnce ==
    /\ pc = "wait"
    /\ pc' = "verdict"
    /\ UNCHANGED <<inputs, session, sawsConfigPath, probed, singleTarget, targetRegionsCmd,
                   targetAccountNames, totalExecutions, spawned, wg, successfulExecutions,
                   finalSuccessCount, exitCode, exitMsg, workers, stdout, logOut>>

\* wg.Wait() returns
WaitReturns ==
    /\ pc = "wait"
    /\ wg = 0
    /\ pc' = "verdict"
    /\ UNCHANGED <<inputs, session, sawsConfigPath, probed, singleTarget,
                   targetRegionsCmd, targetAccountNames, totalExecutions, spawned,
                   wg, successfulExecutions, finalSuccessCount, exitCode, exitMsg,
                   workers, stdout, logOut>>

\* ExitCodeFor with the run called good as soon as one unit succeeded
ExitCodeWhenAnySucceeded(successCount, total) == IF successCount >= 1 THEN 0 ELSE 1

ExitCodeFor(successCount, total) == IF successCount = total THEN 0 ELSE 1

FinalVerdict ==
    /\ pc = "verdict"
    /\ finalSuccessCount' = successfulExecutions
    /\ exitCode' = ExitCodeFor(successfulExecutions, totalExecutions)
    /\ exitMsg' = IF ExitCodeFor(successfulExecutions, totalExecutions) = 0
                  THEN [kind |-> "all succeeded"]
                  ELSE [kind       |-> "partial",
                        successful |-> successfulExecutions,
                        outOf      |-> totalExecutions,
                        failed     |-> totalExecutions - successfulExecutions]
    /\ pc' = "exited"
    /\ UNCHANGED <<inputs, session, sawsConfigPath, probed, singleTarget,
                   targetRegionsCmd, targetAccountNames, totalExecutions, spawned,
                   wg, successfulExecutions, workers, stdout, logOut>>

\* ------------------------------------------------- ProcessAccountRegion
\* log.Printf: main sends the log package's output to io.Discard unless -v
LogPrintf(line) == IF verbose THEN logOut \cup {line} ELSE logOut

\* what sts:AssumeRole can answer
StsResponses == {"error", "incomplete", "ok"}

\* the credential bundle STS issues in answer to the n-th call of unit u:
\* STS answers every call with credentials of their own
Bundle(u, n) ==
    [AccessKeyId     |-> <<"akid", ToString(u), ToString(n)>>,
     SecretAccessKey |-> <<"secret", ToString(u), ToString(n)>>,
     SessionToken    |-> <<"token", ToString(u), ToString(n)>>]

\* ValidCredentials with the response trusted whenever the call returns no error
ValidCredentialsOnNilError(resp) == resp # "error"

\* AssumeRole returns the credentials: the call returned no error and the
\* response holds the credentials with key id, secret key and session token
ValidCredentials(resp) == resp = "ok"

\* AssumeStep with wg.Done() called at the end of the function only, not deferred:
\* the early returns leave the wait group as it is
AssumeStepWithoutDone(u) ==
    /\ workers[u].at = "start"
    /\ IF workers[u].accountName \notin DOMAIN accounts
       THEN /\ logOut' = LogPrintf([kind    |-> "account id not found",
                                    account |-> workers[u].accountName])
            /\ workers' = [workers EXCEPT ![u].at = "done"]
            /\ wg' = wg
       ELSE \E resp \in StsResponses :
              IF ValidCredentials(resp)
              THEN /\ workers' = [workers EXCEPT ![u].at = "assumed",
                                                 ![u].assumeCalls = @ + 1,
                                                 ![u].sts = resp,
                                                 ![u].creds = Bundle(u, workers[u].assumeCalls + 1)]
                   /\ UNCHANGED <<wg, logOut>>
              ELSE /\ logOut' = LogPrintf([kind    |-> "assume role failed",
                                           account |-> workers[u].accountName,
                                           region  |-> workers[u].region,
                                           cause   |-> resp])
                   /\ workers' = [workers EXCEPT ![u].at = "done",
                                                 ![u].assumeCalls = @ + 1,
                                                 ![u].sts = resp]
                   /\ wg' = wg
    /\ UNCHANGED <<inputs, session, sawsConfigPath, probed, singleTarget,
                   pc, targetRegionsCmd, targetAccountNames, totalExecutions,
                   spawned, successfulExecutions, finalSuccessCount, exitCode, exitMsg,
                   stdout>>

\* the registry lookup and the one pkg.AssumeRole call; a miss or an error
\* is logged and the goroutine returns (deferred wg.Done)
AssumeStep(u) ==
    /\ workers[u].at = "start"
    /\ IF workers[u].accountName \notin DOMAIN accounts
       THEN /\ logOut' = LogPrintf([kind    |-> "account id not found",
                                    account |-> workers[u].accountName])
            /\ workers' = [workers EXCEPT ![u].at = "done"]
            /\ wg' = wg - 1
       ELSE \E resp \in StsResponses :
              IF ValidCredentials(resp)
              THEN /\ workers' = [workers EXCEPT ![u].at = "assumed",
                                                 ![u].assumeCalls = @ + 1,
                                                 ![u].sts = resp,
                                                 ![u].creds = Bundle(u, workers[u].assumeCalls + 1)]
                   /\ UNCHANGED <<wg, logOut>>
              ELSE /\ logOut' = LogPrintf([kind    |-> "assume role failed",
                                           account |-> workers[u].accountName,
                                           region  |-> workers[u].region,
                                           cause   |-> resp])
                   /\ workers' = [workers EXCEPT ![u].at = "done",
                                                 ![u].assumeCalls = @ + 1,
                                                 ![u].sts = resp]
                   /\ wg' = wg - 1
    /\ UNCHANGED <<inputs, session, sawsConfigPath, probed, singleTarget,
                   pc, targetRegionsCmd, targetAccountNames, totalExecutions,
                   spawned, successfulExecutions, finalSuccessCount, exitCode, exitMsg,
                   stdout>>

\* the variables the loop over os.Environ() leaves out
StrippedPrefixes ==
    { <<"AWS_PROFILE", "=">>, <<"AWS_ACCESS_KEY_ID", "=">>,
      <<"AWS_SECRET_ACCESS_KEY", "=">>, <<"AWS_SESSION_TOKEN", "=">>,
      <<"AWS_SECURITY_TOKEN", "=">>, <<"AWS_REGION", "=">>,
      <<"AWS_DEFAULT_REGION", "=">>, <<"AWS_CONFIG_FILE", "=">>,
      <<"AWS_SHARED_CREDENTIALS_FILE", "=">> }

\* KeepsEnvVar with the names compared without the "=" that ends a name
KeepsEnvVarByNamePrefix(envVar) ==
    \A prefix \in StrippedPrefixes : ~HasPrefix(envVar, <<Head(prefix)>>)

\* KeepsEnvVar with AWS_DEFAULT_REGION forgotten
KeepsEnvVarButDefaultRegion(envVar) ==
    \A prefix \in StrippedPrefixes \ {<<"AWS_DEFAULT_REGION", "=">>} :
        ~HasPrefix(envVar, prefix)

KeepsEnvVar(envVar) == \A prefix \in StrippedPrefixes : ~HasPrefix(envVar, prefix)

RECURSIVE CleanEnv(_)
CleanEnv(originalEnv) ==
    IF originalEnv = <<>> THEN <<>>
    ELSE IF KeepsEnvVar(Head(originalEnv))
         THEN <<Head(originalEnv)>> \o CleanEnv(Tail(originalEnv))
         ELSE CleanEnv(Tail(originalEnv))

\* cmd.Env
CmdEnv(originalEnv, assumedRoleCreds, region) ==
    CleanEnv(originalEnv) \o
    << <<"AWS_ACCESS_KEY_ID", "=">> \o assumedRoleCreds.AccessKeyId,
       <<"AWS_SECRET_ACCESS_KEY", "=">> \o assumedRoleCreds.SecretAccessKey,
       <<"AWS_SESSION_TOKEN", "=">> \o assumedRoleCreds.SessionToken,
       <<"AWS_REGION", "=">> \o region,
       <<"AWS_DEFAULT_REGION", "=">> \o region >>

\* how cmd.Run() can end: nil, an *exec.ExitError, or another error (bash
\* could not be started); with what is left of the captured streams after
\* strings.TrimSpace.  A command that prints is looked at in runs of at most
\* MaxLoudUnits units, which keeps the orders of the writes to stdout within
\* reach of the model checker.
QuietOutcomes ==
    { [err |-> "nil",   code |-> 0, stdOutput |-> <<>>, errOutput |-> <<>>],
      [err |-> "exit",  code |-> 2, stdOutput |-> <<>>, errOutput |-> <<>>],
      [err |-> "other", code |-> 0, stdOutput |-> <<>>, errOutput |-> <<>>] }

LoudOutcomes ==
    { [err |-> "nil",   code |-> 0, stdOutput |-> <<"out">>, errOutput |-> <<>>],
      [err |-> "nil",   code |-> 0, stdOutput |-> <<>>,      errOutput |-> <<"warning">>],
      [err |-> "exit",  code |-> 2, stdOutput |-> <<>>,      errOutput |-> <<"error">>] }

\* bash was ended by a signal: ExitError.ExitCode() is -1
SignalOutcomes ==
    { [err |-> "exit", code |-> -1, stdOutput |-> <<>>, errOutput |-> <<>>] }

RunOutcomes ==
    QuietOutcomes
    \cup (IF totalExecutions <= MaxLoudUnits THEN LoudOutcomes \cup SignalOutcomes ELSE {})

\* ExitCodeOf with 0 kept when the command could not be run
ExitCodeOfExitErrorOnly(outcome) == IF outcome.err = "exit" THEN outcome.code ELSE 0

ExitCodeOf(outcome) ==
    IF outcome.err = "nil" THEN 0
    ELSE IF outcome.err = "exit" THEN outcome.code
    ELSE -1

StatusOf(outcome) == IF outcome.err = "nil" THEN "SUCCESS" ELSE "FAILED"

\* the fmt.Printf / fmt.Println calls of one unit, in order
ResultBlock(w, outcome) ==
    << [line     |-> "--- Result",
        account  |-> w.accountName,
        region   |-> w.region,
        status   |-> StatusOf(outcome),
        exitCode |-> ExitCodeOf(outcome)] >>
    \o (IF outcome.stdOutput # <<>>
        THEN << [line |-> "[STDOUT]"], [line |-> "text", text |-> outcome.stdOutput] >>
        ELSE <<>>)
    \o (IF outcome.errOutput # <<>>
        THEN << [line |-> IF ExitCodeOf(outcome) # 0
                          THEN "[STDERR]" ELSE "[STDERR (Exit Code 0)]"],
                [line |-> "text", text |-> outcome.errOutput] >>
        ELSE <<>>)
    \o << [line |-> "--- End Result ---"] >>

\* the bundle a unit puts into its subprocess environment, drawn from a
\* cache that keeps the first bundle issued for the account
CredsCachedPerAccount(ws, u) ==
    LET first == CHOOSE v \in DOMAIN ws :
                    /\ ws[v].accountName = ws[u].accountName
                    /\ ws[v].creds # NoCreds
                    /\ \A x \in DOMAIN ws :
                          (ws[x].accountName = ws[u].accountName /\ ws[x].creds # NoCreds)
                              => v <= x
    IN  ws[first].creds

\* the bundle a unit puts into its subprocess environment: assumedRoleCreds
CredsOf(ws, u) == ws[u].creds

\* the environment is built and the command run to its end
RunStep(u) ==
    /\ workers[u].at = "assumed"
    /\ \E outcome \in RunOutcomes :
          /\ workers' = [workers EXCEPT
                            ![u].at = "printing",
                            ![u].env = CmdEnv(environ, CredsOf(workers, u), workers[u].region),
                            ![u].exitCode = ExitCodeOf(outcome),
                            ![u].status = StatusOf(outcome),
                            ![u].ran = outcome,
                            ![u].pending = ResultBlock(workers[u], outcome)]
          /\ logOut' = IF outcome.err = "other"
                       THEN LogPrintf([kind    |-> "error executing command",
                                       account |-> workers[u].accountName,
                                       region  |-> workers[u].region])
                       ELSE logOut
    /\ UNCHANGED <<inputs, session, sawsConfigPath, probed, singleTarget,
                   pc, targetRegionsCmd, targetAccountNames, totalExecutions,
                   spawned, wg, successfulExecutions, finalSuccessCount, exitCode,
                   exitMsg, stdout>>

\* one fmt.Printf / fmt.Println of the result block
PrintStep(u) ==
    /\ workers[u].at = "printing"
    /\ workers[u].pending # <<>>
    /\ stdout' = Append(stdout, [unit |-> u, write |-> Head(workers[u].pending)])
    /\ workers' = [workers EXCEPT ![u].pending = Tail(@),
                                  ![u].at = IF Len(workers[u].pending) = 1
                                            THEN "printed" ELSE "printing"]
    /\ UNCHANGED <<inputs, session, sawsConfigPath, probed, singleTarget,
                   pc, targetRegionsCmd, targetAccountNames, totalExecutions,
                   spawned, wg, successfulExecutions, finalSuccessCount, exitCode,
                   exitMsg, logOut>>

\* CountsAsSuccess with every exit code of the command counted but the sentinel -1
CountsAnyExitCode(w) == w.exitCode >= 0

\* CountsAsSuccess with every unit that ran its command counted
CountsEveryRun(w) == TRUE

CountsAsSuccess(w) == w.exitCode = 0

\* SuccessCounterAfter with a failed unit taken off the counter
SuccessCounterLessFailures(counter, w) ==
    IF CountsAsSuccess(w) THEN counter + 1 ELSE counter - 1

\* the counter after the unit's successCounter.Add(1), if it makes it
SuccessCounterAfter(counter, w) ==
    IF CountsAsSuccess(w) THEN counter + 1 ELSE counter

\* successCounter.Add(1) on exit code 0, then the deferred wg.Done()
FinishStep(u) ==
    /\ workers[u].at = "printed"
    /\ successfulExecutions' = SuccessCounterAfter(successfulExecutions, workers[u])
    /\ wg' = wg - 1
    /\ workers' = [workers EXCEPT ![u].at = "done"]
    /\ UNCHANGED <<inputs, session, sawsConfigPath, probed, singleTarget,
                   pc, targetRegionsCmd, targetAccountNames, totalExecutions,
                   spawned, finalSuccessCount, exitCode, exitMsg, stdout,
                   logOut>>

WorkerStep(u) == AssumeStep(u) \/ RunStep(u) \/ PrintStep(u) \/ FinishStep(u)

\* ------------------------------------------------------------ the run
RunRegistry == [n \in {<<"a">>, <<"b">>} |-> IF n = <<"a">> THEN <<"111">> ELSE <<"222">>]

RunSelectors == { <<"a">>, <<"b", ",", "a">>, <<"prod">> }

RunRegionInputs ==
    { <<>>,
      <<"us-east-1">>,
      <<"eu-west-1", ",", " ", "us-east-1">>,
      <<"eu-west-1", ",", "eu-west-1">>,
      <<"eu-west-1", ",", "us-east-1", ",", "eu-west-1">>,
      <<",">> }

AmbientResults ==
    { [err |-> TRUE, Region |-> <<>>],
      [err |-> FALSE, Region |-> <<>>],
      [err |-> FALSE, Region |-> <<"eu-central-1">>] }

RunEnviron ==
    << <<"PATH", "=", "/usr/bin">>,
       <<"AWS_ACCESS_KEY_ID", "=", "parent">>,
       <<"AWS_REGION", "=", "parent">>,
       <<"AWS_REGION", "_X", "=", "parent">> >>

\* the configuration set-ups of a run: the file in its standard place; no file
\* anywhere; a -config file that is there but is not accepted; a -config file
\* that is absent while the standard one is there
CanonicalConfig ==
    [override |-> <<>>, homeDirOk |-> TRUE, fileExists |-> {HomeConfigPath}, loads |-> TRUE]

RunConfigs ==
    { CanonicalConfig,
      [override |-> <<>>, homeDirOk |-> TRUE, fileExists |-> {}, loads |-> TRUE],
      [override |-> <<"/etc/saws.yaml">>, homeDirOk |-> TRUE,
       fileExists |-> {<<"/etc/saws.yaml">>}, loads |-> FALSE],
      [override |-> <<"/etc/saws.yaml">>, homeDirOk |-> TRUE,
       fileExists |-> {HomeConfigPath}, loads |-> TRUE],
      [override |-> <<>>, homeDirOk |-> FALSE,
       fileExists |-> {HomeConfigPath, ConfigFileName}, loads |-> TRUE] }

\* the values of -r: a friendly name of the roles map, an actual role name, none
RunRoleFlags == { <<"Developer">>, <<"DeveloperAccessRole">>, <<>> }

\* the units a run with these flags would plan
PlannedUnits(all, sel, regionsStr, probe) ==
    LET accs == IF all THEN AllAccountNamesSorted(RunRegistry)
                ELSE SortStrings(MatchedAccountsMap(sel, RunRegistry))
        regs == IF TrimSpace(regionsStr) # <<>>
                THEN ExplicitRegions(TrimSpace(regionsStr))
                ELSE <<DefaultCmdRegion(probe)>>
    IN  Len(accs) * Len(regs)

Init ==
    /\ verbose \in BOOLEAN
    /\ processAll \in BOOLEAN
    /\ selector \in RunSelectors \cup {<<>>}
    /\ cmdRegionsStr \in RunRegionInputs
    /\ lookPathOk \in BOOLEAN
    /\ baseCfgOk \in BOOLEAN
    /\ ambient \in (IF cmdRegionsStr = <<>> THEN AmbientResults
                    ELSE {[err |-> TRUE, Region |-> <<>>]})
    /\ \E cfg \in RunConfigs :
          /\ configFileOverride = cfg.override
          /\ homeDirOk = cfg.homeDirOk
          /\ fileExists = cfg.fileExists
          /\ configLoads = cfg.loads
    \* a failing setup check is looked at with everything else in order
    /\ (~lookPathOk \/ ~baseCfgOk \/ fileExists # CanonicalConfig.fileExists
           \/ configFileOverride # <<>>)
          => (verbose /\ ~processAll /\ selector = <<"a">> /\ cmdRegionsStr = <<>> /\ ambient.err)
    /\ (fileExists # CanonicalConfig.fileExists \/ configFileOverride # <<>>)
          => (lookPathOk /\ baseCfgOk)
    /\ PlannedUnits(processAll, selector, cmdRegionsStr, ambient) <= MaxUnits
    /\ accounts = RunRegistry
    /\ environ = RunEnviron
    /\ sawsAccountEnv = <<>>
    /\ sawsConfigPath = <<>>
    /\ probed = FALSE
    /\ matchedAccountNames = <<>>
    /\ selectedAccountName = <<>>
    /\ pc = "config"
    /\ targetRegionsCmd = <<>>
    /\ targetAccountNames = <<>>
    /\ totalExecutions = 0
    /\ spawned = 0
    /\ wg = 0
    /\ successfulExecutions = 0
    /\ finalSuccessCount = 0
    /\ exitCode = -1
    /\ exitMsg = [kind |-> "running"]
    /\ workers = <<>>
    /\ stdout = <<>>
    /\ logOut = {}
    /\ roles = RunRoles
    /\ roleCmd \in RunRoleFlags
    \* a role that is no friendly name, or none, is looked at with everything else in order
    /\ roleCmd # <<"Developer">>
          => /\ verbose /\ ~processAll /\ selector = <<"a">> /\ cmdRegionsStr = <<>>
             /\ ambient.err /\ lookPathOk /\ baseCfgOk
             /\ fileExists = CanonicalConfig.fileExists /\ configFileOverride = <<>>
    /\ CommandModeOnly
    /\ SessionIdle

Next ==
    \/ LoadAppConfig
    \/ CheckFlags
    \/ DetermineRegions
    \/ DetermineAccounts
    \/ LoadBaseConfig
    \/ SpawnWorker
    \/ WaitReturns
    \/ FinalVerdict
    \/ \E u \in DOMAIN workers : AssumeStep(u)
    \/ \E u \in DOMAIN workers : RunStep(u)
    \/ \E u \in DOMAIN workers : PrintStep(u)
    \/ \E u \in DOMAIN workers : FinishStep(u)

Spec == Init /\ [][Next]_vars

\* the goroutine of unit u, once it is started
Scheduled(u) == u \in DOMAIN workers /\ WorkerStep(u)

\* the run under a fair scheduler, every call of STS and every subprocess
\* returning: main goes on whenever it can, and so does every goroutine
SpecLive ==
    /\ Spec
    /\ WF_vars(SpawnWorker)
    /\ WF_vars(WaitReturns)
    /\ WF_vars(FinalVerdict)
    /\ \A u \in 1..MaxUnits : WF_vars(Scheduled(u))

\* --------------------------------------------------- the selector, alone
Registries ==
    { [n \in {<<"a">>, <<"b">>, <<"a", "[">>} |-> <<"111">>],
      [n \in {<<"dev", "-", "a">>, <<"dev", "-", "b">>, <<"prod", "-", "a">>} |-> <<"222">>],
      [n \in {<<"prod">>, <<"prod", "-", "2">>} |-> <<"333">>] }

SelWords ==
    { <<"a">>, <<"b">>, <<"dev", "-", "*">>, <<"prod">>, <<"*">>, <<"[">>, <<",">>, <<" ">> }

RECURSIVE WordSeqs(_)
WordSeqs(n) ==
    IF n = 0 THEN {<<>>}
    ELSE LET shorter == WordSeqs(n - 1)
         IN  shorter \cup {Append(ws, w) : ws \in shorter, w \in SelWords}

Selectors == {Concat(ws) : ws \in WordSeqs(MaxSelParts)} \ {<<>>}

\* main has passed the flag checks and resolved the regions of a run without -regions
InitSel ==
    /\ verbose = FALSE
    /\ processAll = FALSE
    /\ selector \in Selectors
    /\ cmdRegionsStr = <<>>
    /\ lookPathOk = TRUE
    /\ ambient = [err |-> TRUE, Region |-> <<>>]
    /\ baseCfgOk = TRUE
    /\ accounts \in Registries
    /\ environ = <<>>
    /\ configFileOverride = CanonicalConfig.override
    /\ homeDirOk = CanonicalConfig.homeDirOk
    /\ fileExists = CanonicalConfig.fileExists
    /\ configLoads = CanonicalConfig.loads
    /\ sawsAccountEnv = <<>>
    /\ sawsConfigPath = HomeConfigPath
    /\ probed = TRUE
    /\ matchedAccountNames = <<>>
    /\ selectedAccountName = <<>>
    /\ pc = "accounts"
    /\ targetRegionsCmd = <<FallbackRegion>>
    /\ targetAccountNames = <<>>
    /\ totalExecutions = 0
    /\ spawned = 0
    /\ wg = 0
    /\ successfulExecutions = 0
    /\ finalSuccessCount = 0
    /\ exitCode = -1
    /\ exitMsg = [kind |-> "running"]
    /\ workers = <<>>
    /\ stdout = <<>>
    /\ logOut = {}
    /\ roles = RunRoles
    /\ roleCmd = <<"Developer">>
    /\ CommandModeOnly
    /\ SessionIdle

NextSel == DetermineAccounts

SpecSel == InitSel /\ [][NextSel]_vars

\* ------------------------- account selection of both flows, side by side
OneRegistries ==
    Registries \cup { [n \in {<<"a">>, <<"a", "*">>, <<"a", "*", "b">>} |-> <<"444">>] }

\* main is about to resolve the accounts of command mode, or has called
\* EstablishAWSContextAndAssumeRole for one of the session modes
InitOne ==
    /\ verbose = FALSE
    /\ processAll \in BOOLEAN
    /\ selector \in Selectors \cup {<<>>}
    /\ cmdRegionsStr = <<>>
    /\ lookPathOk = TRUE
    /\ ambient = [err |-> TRUE, Region |-> <<>>]
    /\ baseCfgOk = TRUE
    /\ accounts \in OneRegistries
    /\ environ = <<>>
    /\ configFileOverride = CanonicalConfig.override
    /\ homeDirOk = CanonicalConfig.homeDirOk
    /\ fileExists = CanonicalConfig.fileExists
    /\ configLoads = CanonicalConfig.loads
    /\ sawsAccountEnv \in {<<>>, <<"b">>, <<"prod">>}
    /\ sawsConfigPath = HomeConfigPath
    /\ matchedAccountNames = <<>>
    /\ selectedAccountName = <<>>
    /\ \/ pc = "establish" /\ ~processAll /\ probed = FALSE /\ targetRegionsCmd = <<>>
       \/ /\ pc = "accounts"
          /\ processAll = (selector = <<>>)
          /\ sawsAccountEnv = <<>>
          /\ probed = TRUE
          /\ targetRegionsCmd = <<FallbackRegion>>
    /\ targetAccountNames = <<>>
    /\ totalExecutions = 0
    /\ spawned = 0
    /\ wg = 0
    /\ successfulExecutions = 0
    /\ finalSuccessCount = 0
    /\ exitCode = -1
    /\ exitMsg = [kind |-> "running"]
    /\ workers = <<>>
    /\ stdout = <<>>
    /\ logOut = {}
    /\ roles = RunRoles
    /\ roleCmd = <<"Developer">>
    /\ CommandModeOnly
    /\ SessionIdle

NextOne ==
    \/ DetermineAccounts
    \/ MatchAccounts
    \/ ChooseAccount

SpecOne == InitOne /\ [][NextOne]_vars

\* ------------------------------------------ the configuration file, alone
Overrides == { <<>>, <<"/etc/saws.yaml">>, <<"~", "/", "cfg.yaml">> }

ConfigPaths ==
    { <<"/etc/saws.yaml">>, <<"~", "/", "cfg.yaml">>, JoinPath(HomeDir, <<"cfg.yaml">>),
      HomeConfigPath, ConfigFileName }

\* main has parsed its flags
InitCfg ==
    /\ verbose = FALSE
    /\ processAll = TRUE
    /\ selector = <<>>
    /\ cmdRegionsStr = <<>>
    /\ lookPathOk = TRUE
    /\ ambient = [err |-> TRUE, Region |-> <<>>]
    /\ baseCfgOk = TRUE
    /\ accounts = RunRegistry
    /\ environ = <<>>
    /\ configFileOverride \in Overrides
    /\ homeDirOk \in BOOLEAN
    /\ fileExists \in SUBSET ConfigPaths
    /\ configLoads \in BOOLEAN
    /\ sawsAccountEnv = <<>>
    /\ sawsConfigPath = <<>>
    /\ probed = FALSE
    /\ matchedAccountNames = <<>>
    /\ selectedAccountName = <<>>
    /\ pc = "config"
    /\ targetRegionsCmd = <<>>
    /\ targetAccountNames = <<>>
    /\ totalExecutions = 0
    /\ spawned = 0
    /\ wg = 0
    /\ successfulExecutions = 0
    /\ finalSuccessCount = 0
    /\ exitCode = -1
    /\ exitMsg = [kind |-> "running"]
    /\ workers = <<>>
    /\ stdout = <<>>
    /\ logOut = {}
    /\ roles = RunRoles
    /\ roleCmd = <<"Developer">>
    /\ CommandModeOnly
    /\ SessionIdle

NextCfg == LoadAppConfig

SpecCfg == InitCfg /\ [][NextCfg]_vars

\* ------------------------------------------------ the regions, alone
RegionWords == { <<"eu-west-1">>, <<"us-east-1">>, <<",">>, <<" ">>, <<",", " ", ",">> }

RECURSIVE RegionWordSeqs(_)
RegionWordSeqs(n) ==
    IF n = 0 THEN {<<>>}
    ELSE LET shorter == RegionWordSeqs(n - 1)
         IN  shorter \cup {Append(ws, w) : ws \in shorter, w \in RegionWords}

RegionInputs == {Concat(ws) : ws \in RegionWordSeqs(MaxRegionParts)}

\* main has passed the flag checks of command mode
InitReg ==
    /\ verbose = FALSE
    /\ processAll = TRUE
    /\ selector = <<>>
    /\ cmdRegionsStr \in RegionInputs
    /\ lookPathOk = TRUE
    /\ ambient \in AmbientResults
    /\ baseCfgOk = TRUE
    /\ accounts = RunRegistry
    /\ environ = <<>>
    /\ configFileOverride = CanonicalConfig.override
    /\ homeDirOk = CanonicalConfig.homeDirOk
    /\ fileExists = CanonicalConfig.fileExists
    /\ configLoads = CanonicalConfig.loads
    /\ sawsAccountEnv = <<>>
    /\ sawsConfigPath = HomeConfigPath
    /\ probed = FALSE
    /\ matchedAccountNames = <<>>
    /\ selectedAccountName = <<>>
    /\ pc = "regions"
    /\ targetRegionsCmd = <<>>
    /\ targetAccountNames = <<>>
    /\ totalExecutions = 0
    /\ spawned = 0
    /\ wg = 0
    /\ successfulExecutions = 0
    /\ finalSuccessCount = 0
    /\ exitCode = -1
    /\ exitMsg = [kind |-> "running"]
    /\ workers = <<>>
    /\ stdout = <<>>
    /\ logOut = {}
    /\ roles = RunRoles
    /\ roleCmd = <<"Developer">>
    /\ CommandModeOnly
    /\ SessionIdle

NextReg == DetermineRegions

SpecReg == InitReg /\ [][NextReg]_vars

\* ----------------------------------------------- the environment, alone
DeniedNames ==
    { "AWS_PROFILE", "AWS_ACCESS_KEY_ID", "AWS_SECRET_ACCESS_KEY", "AWS_SESSION_TOKEN",
      "AWS_SECURITY_TOKEN", "AWS_REGION", "AWS_DEFAULT_REGION", "AWS_CONFIG_FILE",
      "AWS_SHARED_CREDENTIALS_FILE" }

EnvEntries ==
    {<<name, "=", "parent">> : name \in DeniedNames}
    \cup { <<"AWS_REGION", "=", "eu-west-1">>,
           <<"AWS_REGION", "_X", "=", "parent">>,
           <<"PATH", "=", "/usr/bin">>,
           <<"NOTE", "=", "AWS_REGION", "=", "parent">> }

Environs == UNION {[1..k -> EnvEntries] : k \in 0..MaxEnvLen}

\* a run of one unit whose role has just been assumed
InitEnv ==
    /\ roles = RunRoles
    /\ roleCmd = <<"Developer">>
    /\ CommandModeOnly
    /\ SessionIdle
    /\ verbose = FALSE
    /\ processAll = FALSE
    /\ selector = <<"a">>
    /\ cmdRegionsStr = <<"eu-west-1">>
    /\ lookPathOk = TRUE
    /\ ambient = [err |-> TRUE, Region |-> <<>>]
    /\ baseCfgOk = TRUE
    /\ accounts = RunRegistry
    /\ environ \in Environs
    /\ configFileOverride = CanonicalConfig.override
    /\ homeDirOk = CanonicalConfig.homeDirOk
    /\ fileExists = CanonicalConfig.fileExists
    /\ configLoads = CanonicalConfig.loads
    /\ sawsAccountEnv = <<>>
    /\ sawsConfigPath = HomeConfigPath
    /\ probed = FALSE
    /\ matchedAccountNames = <<>>
    /\ selectedAccountName = <<>>
    /\ pc = "wait"
    /\ targetRegionsCmd = << <<"eu-west-1">> >>
    /\ targetAccountNames = << <<"a">> >>
    /\ totalExecutions = 1
    /\ spawned = 1
    /\ wg = 1
    /\ successfulExecutions = 0
    /\ finalSuccessCount = 0
    /\ exitCode = -1
    /\ exitMsg = [kind |-> "running"]
    /\ workers = << [NewWorker(1) EXCEPT !.at = "assumed",
                                         !.assumeCalls = 1,
                                         !.sts = "ok",
                                         !.creds = Bundle(1, 1)] >>
    /\ stdout = <<>>
    /\ logOut = {}

NextEnv == \E u \in DOMAIN workers : RunStep(u)

SpecEnv == InitEnv /\ [][NextEnv]_vars

\* ------------------------------------------------- claims on the selector
Resolved == pc \in {"baseCfg", "exited"}

RECURSIVE Join(_, _)
Join(ss, sep) ==
    IF ss = <<>> THEN <<>>
    ELSE IF Len(ss) = 1 THEN Head(ss)
    ELSE Head(ss) \o <<sep>> \o Join(Tail(ss), sep)

SeqsUpTo(S, n) == UNION {[1..k -> S] : k \in 0..n}

\* the pattern lists with the same set of patterns, in any order, one more at most
Rearranged(patterns) ==
    {q \in SeqsUpTo(Range(patterns), Len(patterns) + 1) : Range(q) = Range(patterns)}

\* C8: the resolved account list depends only on the set of patterns of the
\* selector: every selector listing the same patterns in another order, or
\* with a pattern repeated, resolves to the list this run resolved.
C8_OrderAndRepetitionIndependent ==
    Resolved =>
        \A q \in Rearranged(SelectorPatterns(selector)) :
            SortStrings(MatchedAccountsMap(Join(q, ","), accounts)) = targetAccountNames

C8_Witness ==
    /\ pc = "baseCfg"
    /\ Cardinality(Range(SelectorPatterns(selector))) >= 2
    /\ \E q \in Rearranged(SelectorPatterns(selector)) : q # SelectorPatterns(selector)
    /\ Len(targetAccountNames) >= 2

\* strings.FieldsFunc on whitespace and commas: what the claim says the split is
RECURSIVE FieldsOnSpaceOrComma(_)
FieldsOnSpaceOrComma(s) ==
    IF s = <<>> THEN <<>>
    ELSE IF Head(s) \in {" ", ","} THEN FieldsOnSpaceOrComma(Tail(s))
    ELSE LET rest == FieldsOnSpaceOrComma(Tail(s))
         IN  IF Len(s) > 1 /\ s[2] \notin {" ", ","}
             THEN <<<<Head(s)>> \o Head(rest)>> \o Tail(rest)
             ELSE <<<<Head(s)>>>> \o rest

\* C9: the selector is split on whitespace and/or commas into patterns that are
\* OR-combined: the resolved list holds the accounts that match one of the
\* whitespace- or comma-separated patterns.
C9_SplitOnWhitespaceOrComma ==
    Resolved =>
        targetAccountNames =
            SortStrings({accName \in DOMAIN accounts :
                            AccountMatches(accName, FieldsOnSpaceOrComma(selector))})

\* C10: an account is resolved iff its name equals one of the patterns or
\* matches one as a glob; an account whose name is string-equal to a pattern
\* is always resolved.  (The glob is the one the code uses, so only the
\* exact-name half of the claim is put to the test.)
C10_ExactOrGlob ==
    Resolved =>
        \A accName \in DOMAIN accounts :
            accName \in Range(targetAccountNames) <=>
                \E i \in DOMAIN SelectorPatterns(selector) :
                    \/ SelectorPatterns(selector)[i] = accName
                    \/ Match(SelectorPatterns(selector)[i], accName).match

\* command mode has resolved the selector
FanOutResolved ==
    \/ pc = "baseCfg"
    \/ pc = "exited" /\ exitMsg.kind \in {"no valid names/patterns", "no accounts found"}

\* the single-target flow has matched the selector
SingleTargetMatched ==
    \/ pc \in {"role", "chooseAccount"}
    \/ pc = "exited" /\ exitMsg.kind \in {"selector did not match any accounts",
                                            "account selection failed"}

\* C11: a selector that is the name of an account selects that account and
\* none of the accounts whose names extend it; in the single-target flow it
\* selects that account alone, without a prompt, whatever else it matches as
\* a glob.
C11_ExactNameAlone ==
    /\ (FanOutResolved /\ SelectorPatterns(selector) \in {<<n>> : n \in DOMAIN accounts}) =>
          /\ SelectorPatterns(selector)[1] \in Range(targetAccountNames)
          /\ \A other \in DOMAIN accounts :
                (other # SelectorPatterns(selector)[1]
                    /\ HasPrefix(other, SelectorPatterns(selector)[1]))
                  => other \notin Range(targetAccountNames)
    /\ (SingleTargetMatched /\ CurrentAccountSelector \in DOMAIN accounts) =>
          /\ matchedAccountNames = <<CurrentAccountSelector>>
          /\ selectedAccountName = CurrentAccountSelector
          /\ pc = "role"

\* --------------------------------- claims on the configuration file
\* main is past the lookup of the configuration file
ConfigLookedUp ==
    \/ pc = "flags"
    \/ pc = "exited" /\ exitMsg.kind \in {"config not found", "config not loaded"}

\* the locations the documentation lists, in its order, that can be named
ConfigLocations ==
    (IF configFileOverride # <<>> THEN <<ExpandedPath(configFileOverride)>> ELSE <<>>)
    \o (IF homeDirOk THEN <<HomeConfigPath>> ELSE <<>>)
    \o <<ConfigFileName>>

\* C13: the configuration file is looked up at the -config path, then at
\* ~/.aws/saws-config.yaml, then at ./saws-config.yaml: the first of these
\* that exists is the one used, and when none exists the run ends with a
\* non-zero exit and no unit spawned.
C13_ConfigLookupOrder ==
    ConfigLookedUp =>
        /\ \A i \in DOMAIN ConfigLocations :
              (/\ ConfigLocations[i] \in fileExists
               /\ \A j \in 1..(i - 1) : ConfigLocations[j] \notin fileExists)
                 => /\ sawsConfigPath = ConfigLocations[i]
                    /\ exitMsg.kind # "config not found"
        /\ (\A i \in DOMAIN ConfigLocations : ConfigLocations[i] \notin fileExists)
              => /\ pc = "exited"
                 /\ exitCode = 1
                 /\ exitMsg.kind = "config not found"
                 /\ workers = <<>>

\* ----------------------------------------------- claims on the regions
\* the regions have been resolved, or the run has ended for want of one
RegionsResolved ==
    \/ pc = "accounts"
    \/ pc = "exited" /\ exitMsg.kind = "no valid region names"

\* the -regions value names nothing: it is empty or blank
NoExplicitRegions == \A i \in DOMAIN cmdRegionsStr : cmdRegionsStr[i] = " "

\* C12: a -regions value that is not blank is used and the ambient probe is
\* not consulted; without one the probe is consulted and its region is used
\* if it yields one; the fallback region eu-west-1 is used only when the
\* probe fails or yields no region.  A run that goes on has a region, and no
\* region is the empty string.
C12_RegionFallbackChain ==
    RegionsResolved =>
        /\ ~NoExplicitRegions =>
              /\ ~probed
              /\ \A i \in DOMAIN targetRegionsCmd :
                    \E j \in DOMAIN Split(cmdRegionsStr, ",") :
                        targetRegionsCmd[i] = TrimSpace(Split(cmdRegionsStr, ",")[j])
              /\ \A j \in DOMAIN Split(cmdRegionsStr, ",") :
                    TrimSpace(Split(cmdRegionsStr, ",")[j]) # <<>>
                        => TrimSpace(Split(cmdRegionsStr, ",")[j]) \in Range(targetRegionsCmd)
        /\ NoExplicitRegions =>
              /\ probed
              /\ pc = "accounts"
              /\ (~ambient.err /\ ambient.Region # <<>>)
                    => targetRegionsCmd = <<ambient.Region>>
              /\ (ambient.err \/ ambient.Region = <<>>)
                    => targetRegionsCmd = << <<"eu-west-1">> >>
        /\ pc = "accounts" =>
              /\ targetRegionsCmd # <<>>
              /\ \A i \in DOMAIN targetRegionsCmd : targetRegionsCmd[i] # <<>>

C12_Witness ==
    /\ pc = "accounts"
    /\ probed
    /\ cmdRegionsStr = <<" ">>
    /\ targetRegionsCmd = << <<"eu-central-1">> >>

\* ------------------------------------------- claims on the environment
InjectedNames ==
    {"AWS_ACCESS_KEY_ID", "AWS_SECRET_ACCESS_KEY", "AWS_SESSION_TOKEN", "AWS_REGION",
     "AWS_DEFAULT_REGION"}

\* the positions of env that set the variable called name
EntriesNamed(env, name) == {i \in DOMAIN env : HasPrefix(env[i], <<name, "=">>)}

\* the value a unit is to hand to its subprocess for an injected variable
OwnValue(u, name) ==
    IF name = "AWS_ACCESS_KEY_ID" THEN Bundle(u, 1).AccessKeyId
    ELSE IF name = "AWS_SECRET_ACCESS_KEY" THEN Bundle(u, 1).SecretAccessKey
    ELSE IF name = "AWS_SESSION_TOKEN" THEN Bundle(u, 1).SessionToken
    ELSE workers[u].region

\* C5: whatever the parent environment holds, the environment built for a
\* unit sets each of access key, secret key, session token, region and
\* default region exactly once, to the unit's own value, in an entry the
\* unit appended: no entry of the parent for these variables is left.
C5_EnvironmentIsolation ==
    \A u \in DOMAIN workers :
        workers[u].env # <<>> =>
            \A name \in InjectedNames :
                /\ Cardinality(EntriesNamed(workers[u].env, name)) = 1
                /\ \A i \in EntriesNamed(workers[u].env, name) :
                      /\ workers[u].env[i] = <<name, "=">> \o OwnValue(u, name)
                      /\ i > Len(workers[u].env) - Cardinality(InjectedNames)

C5_Witness ==
    /\ \E u \in DOMAIN workers : workers[u].env # <<>>
    /\ Cardinality(EntriesNamed(environ, "AWS_ACCESS_KEY_ID")) >= 2
    /\ Cardinality(EntriesNamed(environ, "AWS_REGION")) >= 1

\* ---------------------------------------------------- claims on the run
\* the workers have been joined
Joined ==
    \/ pc = "verdict"
    \/ pc = "exited" /\ exitMsg.kind \in {"all succeeded", "partial"}

\* the positions of stdout that hold the header of a result block
ResultsPrinted == {i \in DOMAIN stdout : stdout[i].write.line = "--- Result"}

\* C1: once the workers are joined the run has printed |A| x |R| results,
\* no two of them for the same (account, region).
C1_OneResultPerPair ==
    Joined =>
        /\ Cardinality(ResultsPrinted) = Len(targetAccountNames) * Len(targetRegionsCmd)
        /\ \A i, j \in ResultsPrinted :
              i # j => <<stdout[i].write.account, stdout[i].write.region>>
                       # <<stdout[j].write.account, stdout[j].write.region>>

\* the unit got no credentials: its account is not in the registry or its
\* AssumeRole call failed
FailedBeforeRun(u) == workers[u].at = "done" /\ workers[u].creds = NoCreds

\* C2: a unit that fails before its command runs is still on record as
\* failed for its (account, region): by a result block of its own with
\* status FAILED, or at the least by a log line naming its pair.
C2_FailedUnitIsRecorded ==
    Joined =>
        \A u \in DOMAIN workers :
            FailedBeforeRun(u) =>
                \/ Cardinality({i \in ResultsPrinted :
                                    /\ stdout[i].unit = u
                                    /\ stdout[i].write.status = "FAILED"}) = 1
                \/ \E l \in logOut :
                      /\ l.kind = "assume role failed"
                      /\ l.account = workers[u].accountName
                      /\ l.region = workers[u].region

\* C3: a unit never waits on a sibling (its next step can always be taken),
\* every unit has run to its end when the workers are joined, a unit whose
\* command exited 0 has its SUCCESS result printed once and adds one to the
\* success counter whatever became of its siblings, a failed unit adds nothing.
C3_FailureIsolation ==
    /\ \A u \in DOMAIN workers : workers[u].at # "done" => ENABLED WorkerStep(u)
    /\ Joined =>
          /\ \A u \in DOMAIN workers : workers[u].at = "done"
          /\ successfulExecutions =
                Cardinality({u \in DOMAIN workers : workers[u].status = "SUCCESS"})
          /\ \A u \in DOMAIN workers :
                workers[u].status = "SUCCESS" =>
                    Cardinality({i \in ResultsPrinted :
                                    /\ stdout[i].unit = u
                                    /\ stdout[i].write.status = "SUCCESS"
                                    /\ stdout[i].write.account = workers[u].accountName
                                    /\ stdout[i].write.region = workers[u].region}) = 1

C3_Witness ==
    /\ Joined
    /\ \E u, v \in DOMAIN workers :
          /\ FailedBeforeRun(u)
          /\ workers[v].status = "SUCCESS"
    /\ successfulExecutions = 1

\* C4: the run exits 0 iff the success count equals the number of units, and
\* otherwise exits 1 with a summary naming "<successful> out of <total>"; so
\* it exits 0 exactly when every unit succeeded.
C4_FinalVerdict ==
    (pc = "exited" /\ exitMsg.kind \in {"all succeeded", "partial"}) =>
        /\ exitCode \in {0, 1}
        /\ exitCode = 0 <=> finalSuccessCount = totalExecutions
        /\ exitCode = 1 =>
              /\ exitMsg.kind = "partial"
              /\ exitMsg.successful = finalSuccessCount
              /\ exitMsg.outOf = totalExecutions
        /\ exitCode = 0 <=>
              /\ Len(workers) = totalExecutions
              /\ \A u \in DOMAIN workers : workers[u].status = "SUCCESS"

C4_Witness ==
    /\ pc = "exited"
    /\ exitCode = 1
    /\ exitMsg.kind = "partial"
    /\ exitMsg.successful = 1
    /\ exitMsg.outOf = 2

\* C6: one worker is spawned for each pair of a resolved account and a
\* resolved region: none is left out and none is spawned twice.
C6_OneWorkerPerPair ==
    pc \in {"wait", "verdict"} =>
        \A a \in Range(targetAccountNames), r \in Range(targetRegionsCmd) :
            Cardinality({u \in DOMAIN workers :
                            workers[u].accountName = a /\ workers[u].region = r}) = 1

\* the credential entries of a subprocess environment
CredentialEntries(env) ==
    {env[i] : i \in EntriesNamed(env, "AWS_ACCESS_KEY_ID")
                     \cup EntriesNamed(env, "AWS_SECRET_ACCESS_KEY")
                     \cup EntriesNamed(env, "AWS_SESSION_TOKEN")}

\* C7: a unit calls AssumeRole at most once, its subprocess gets exactly the
\* bundle that call returned, and no two units hand the same credentials
\* to their subprocesses.
C7_OwnCredentialsOnce ==
    /\ \A u \in DOMAIN workers :
          /\ workers[u].assumeCalls <= 1
          /\ workers[u].env # <<>> =>
                CredentialEntries(workers[u].env) =
                    { <<"AWS_ACCESS_KEY_ID", "=">> \o Bundle(u, 1).AccessKeyId,
                      <<"AWS_SECRET_ACCESS_KEY", "=">> \o Bundle(u, 1).SecretAccessKey,
                      <<"AWS_SESSION_TOKEN", "=">> \o Bundle(u, 1).SessionToken }
    /\ \A u, v \in DOMAIN workers :
          (u # v /\ workers[u].env # <<>> /\ workers[v].env # <<>>) =>
              CredentialEntries(workers[u].env) \cap CredentialEntries(workers[v].env) = {}

C7_Witness ==
    \E u, v \in DOMAIN workers :
        /\ u # v
        /\ workers[u].accountName = workers[v].accountName
        /\ workers[u].env # <<>>
        /\ workers[v].env # <<>>

\* the units still running
Running == {u \in DOMAIN workers : workers[u].at # "done"}

\* C14: the wait group counts the workers that have not returned (each is
\* added before it is started, so none can signal before it is counted);
\* main reaches the verdict only with every unit spawned and returned, and the
\* count it judged is the counter's final value.
C14_VerdictAfterJoin ==
    /\ wg = Cardinality(Running)
    /\ Joined =>
          /\ Len(workers) = totalExecutions
          /\ Running = {}
    /\ (pc = "exited" /\ Joined) => finalSuccessCount = successfulExecutions

C14_Witness ==
    /\ pc = "exited"
    /\ Joined
    /\ Len(workers) = 2
    /\ finalSuccessCount = 2

\* the units whose command has run and exited with code 0, and that have returned
ExitedZero ==
    {u \in DOMAIN workers :
        workers[u].at = "done" /\ workers[u].status # "" /\ workers[u].exitCode = 0}

\* C15: at every moment the success counter is the number of returned units
\* whose command exited 0, so a unit adds to it only on exit code 0, once;
\* after the join it is the number of units whose command exited 0, whatever
\* the order in which the workers ran.
C15_CounterCountsExitZero ==
    /\ successfulExecutions = Cardinality(ExitedZero)
    /\ Joined =>
          successfulExecutions =
              Cardinality({u \in DOMAIN workers :
                              workers[u].status # "" /\ workers[u].exitCode = 0})

C15_Witness ==
    /\ Joined
    /\ successfulExecutions = 1
    /\ \E u, v \in DOMAIN workers :
          /\ workers[u].status # "" /\ workers[u].exitCode = 0
          /\ workers[v].status # "" /\ workers[v].exitCode = 2

\* C16: the writes of one unit's result block are next to each other on
\* stdout: no write of another unit comes between two writes of a unit.
C16_BlocksAreAtomic ==
    \A i, j, k \in DOMAIN stdout :
        (i < j /\ j < k /\ stdout[i].unit = stdout[k].unit)
            => stdout[j].unit = stdout[i].unit

\* one of the setup checks of command mode cannot pass with these inputs
SetupFails ==
    \/ FindConfigPath(configFileOverride).err
    \/ ~configLoads
    \/ ~lookPathOk
    \/ TrimSpace(cmdRegionsStr) # <<>> /\ ExplicitRegions(TrimSpace(cmdRegionsStr)) = <<>>
    \/ ~processAll /\ MatchedAccountsMap(selector, accounts) = {}

\* C17: a run whose setup fails never has a worker (so no AssumeRole call
\* and no subprocess), prints no result, and exits non-zero if it exits; a
\* run that has a worker has resolved accounts and regions in full, and
\* from then on the registry and both lists stay as they are.
C17_SetupBeforeSpawn ==
    /\ [](SetupFails =>
            /\ workers = <<>>
            /\ stdout = <<>>
            /\ pc \notin {"spawn", "wait", "verdict"}
            /\ pc = "exited" => exitCode = 1)
    /\ [](workers # <<>> =>
            /\ targetAccountNames # <<>>
            /\ targetRegionsCmd # <<>>
            /\ totalExecutions = Len(targetAccountNames) * Len(targetRegionsCmd))
    /\ [][workers # <<>> => UNCHANGED <<accounts, targetAccountNames, targetRegionsCmd>>]_vars

C17_Witness ==
    /\ pc = "exited"
    /\ exitMsg.kind = "no accounts found"
    /\ exitCode = 1
    /\ workers = <<>>

\* C18: a unit whose command has run records exit code 0 and SUCCESS when
\* cmd.Run() returned no error, the command's own exit code and FAILED when
\* it returned an ExitError, -1 and FAILED when the command could not be run;
\* its status is SUCCESS exactly when its exit code is 0, and its printed
\* header carries the two.
C18_StatusAndExitCode ==
    \A u \in DOMAIN workers :
        workers[u].ran # NotRun =>
            /\ workers[u].ran.err = "nil" =>
                  workers[u].exitCode = 0 /\ workers[u].status = "SUCCESS"
            /\ workers[u].ran.err = "exit" =>
                  workers[u].exitCode = workers[u].ran.code /\ workers[u].status = "FAILED"
            /\ workers[u].ran.err = "other" =>
                  workers[u].exitCode = -1 /\ workers[u].status = "FAILED"
            /\ workers[u].status = "SUCCESS" <=> workers[u].exitCode = 0
            /\ \A i \in ResultsPrinted :
                  stdout[i].unit = u =>
                      /\ stdout[i].write.status = workers[u].status
                      /\ stdout[i].write.exitCode = workers[u].exitCode

C18_Witness ==
    \E u, v \in DOMAIN workers :
        /\ workers[u].ran # NotRun /\ workers[u].ran.err = "other"
        /\ workers[v].ran # NotRun /\ workers[v].ran.err = "exit"
        /\ \E i \in ResultsPrinted : stdout[i].unit = u

\* the name of an environment entry: what stands before its first "="
RECURSIVE NameOf(_)
NameOf(entry) ==
    IF entry = <<>> \/ Head(entry) = "=" THEN <<>>
    ELSE <<Head(entry)>> \o NameOf(Tail(entry))

\* env without the entries whose name is on the denylist
RECURSIVE WithoutDenied(_)
WithoutDenied(env) ==
    IF env = <<>> THEN <<>>
    ELSE IF NameOf(Head(env)) \in {<<name>> : name \in DeniedNames}
         THEN WithoutDenied(Tail(env))
         ELSE <<Head(env)>> \o WithoutDenied(Tail(env))

\* C19: the environment of a unit's subprocess is the parent environment
\* without the entries named on the denylist (profile, access key, secret
\* key, session token, security token, region, default region, config file,
\* shared credentials file), every other entry kept as it is and in order,
\* followed by the five entries of the unit.
C19_DenylistFrame ==
    \A u \in DOMAIN workers :
        workers[u].env # <<>> =>
            workers[u].env =
                WithoutDenied(environ)
                \o << <<"AWS_ACCESS_KEY_ID", "=">> \o OwnValue(u, "AWS_ACCESS_KEY_ID"),
                      <<"AWS_SECRET_ACCESS_KEY", "=">> \o OwnValue(u, "AWS_SECRET_ACCESS_KEY"),
                      <<"AWS_SESSION_TOKEN", "=">> \o OwnValue(u, "AWS_SESSION_TOKEN"),
                      <<"AWS_REGION", "=">> \o OwnValue(u, "AWS_REGION"),
                      <<"AWS_DEFAULT_REGION", "=">> \o OwnValue(u, "AWS_DEFAULT_REGION") >>

C19_Witness ==
    /\ \E u \in DOMAIN workers :
          /\ workers[u].env # <<>>
          /\ <<"AWS_REGION", "_X", "=", "parent">> \in Range(workers[u].env)
    /\ <<"AWS_SECURITY_TOKEN", "=", "parent">> \in Range(environ)
    /\ <<"AWS_PROFILE", "=", "parent">> \in Range(environ)

\* the accounts a well-formed pattern of the selector matches
MatchedByWellFormed ==
    {accName \in DOMAIN accounts :
        \E i \in DOMAIN SelectorPatterns(selector) :
            /\ ~BadPattern(SelectorPatterns(selector)[i])
            /\ GlobMatch(SelectorPatterns(selector)[i], accName)}

\* C20: the resolved accounts are those a well-formed pattern matches,
\* wherever the malformed patterns stand in the selector; the run ends at
\* the resolution only when no account is resolved.
C20_MalformedPatternSkipped ==
    Resolved =>
        /\ Range(targetAccountNames) = MatchedByWellFormed
        /\ pc = "exited" <=> MatchedByWellFormed = {}

C20_Witness ==
    /\ pc = "baseCfg"
    /\ Len(SelectorPatterns(selector)) >= 2
    /\ BadPattern(SelectorPatterns(selector)[1])
    /\ targetAccountNames # <<>>

\* ------------------------- the single-target flow, after the account
\* currentRoleName: the -r flag, else SAWS_ROLE, with the flag looked at last
CurrentRoleNameEnvFirst == IF sawsRoleEnv # <<>> THEN sawsRoleEnv ELSE roleCmd

\* currentRoleName: the -r flag, else SAWS_ROLE
CurrentRoleName == IF roleCmd # <<>> THEN roleCmd ELSE sawsRoleEnv

\* the role the single-target flow assumes for a role name given to it: the
\* actual role the roles map has for a friendly name, else the name itself
ResolvedRole(currentRoleName) ==
    IF currentRoleName \in DOMAIN roles THEN roles[currentRoleName] ELSE currentRoleName

\* what the operator may type at "Enter the exact IAM Role Name to Assume:"
ManualRoleNames == { <<"DeveloperAccessRole">> }

\* what the role prompt can yield: the actual role of a friendly name picked
\* from the roles map, or the name typed if the configuration has no roles
RoleAnswers ==
    IF DOMAIN roles # {} THEN {roles[f] : f \in DOMAIN roles} ELSE ManualRoleNames

\* the check that a role has been determined, after selectedRoleName is set
RoleSettled(role) ==
    /\ selectedRoleName' = role
    /\ IF role = <<>>
       THEN /\ pc' = "exited"
            /\ exitCode' = 1
            /\ exitMsg' = [kind |-> "could not determine role"]
       ELSE /\ pc' = "region"
            /\ UNCHANGED <<exitCode, exitMsg>>

\* EstablishAWSContextAndAssumeRole: the role
SelectRole ==
    /\ pc = "role"
    /\ IF CurrentRoleName # <<>>
       THEN /\ RoleSettled(ResolvedRole(CurrentRoleName))
            /\ UNCHANGED prompted
       ELSE /\ prompted' = Append(prompted, "role")
            /\ \/ \E r \in RoleAnswers : RoleSettled(r)
               \/ /\ pc' = "exited"
                  /\ exitCode' = 1
                  /\ exitMsg' = [kind |-> "role selection failed"]
                  /\ UNCHANGED selectedRoleName
    /\ UNCHANGED <<inputs, selectedRegion, sessionAssumeCalls, sessionCreds, subprocess,
                   sessionName, sawsConfigPath, probed, singleTarget, targetRegionsCmd,
                   targetAccountNames, totalExecutions, spawned, wg, successfulExecutions,
                   finalSuccessCount, workers, stdout, logOut>>

\* currentRegion: the -region flag, else SAWS_REGION
CurrentRegion == IF contextRegionFlag # <<>> THEN contextRegionFlag ELSE sawsRegionEnv

\* the options of the region prompt: common_regions, else the region of the
\* default profile if it has one
AvailablePromptRegions ==
    IF commonRegions # <<>> THEN commonRegions
    ELSE IF ~ambient.err /\ ambient.Region # <<>> THEN <<ambient.Region>>
    ELSE <<>>

\* what the operator may type at "Enter the AWS Region:"
ManualRegions == { <<"us-east-1">> }

\* what the region prompt can yield: an option picked, or the region typed
\* if there is no option
RegionAnswers ==
    IF AvailablePromptRegions # <<>> THEN Range(AvailablePromptRegions) ELSE ManualRegions

\* the check that a region has been determined, after selectedRegion is set
RegionSettled(region) ==
    /\ selectedRegion' = region
    /\ IF region = <<>>
       THEN /\ pc' = "exited"
            /\ exitCode' = 1
            /\ exitMsg' = [kind |-> "could not determine region"]
       ELSE /\ pc' = "assume"
            /\ UNCHANGED <<exitCode, exitMsg>>

\* EstablishAWSContextAndAssumeRole: the region; the prompt looks at the
\* default profile for its options and its default choice
SelectRegion ==
    /\ pc = "region"
    /\ IF CurrentRegion # <<>>
       THEN /\ RegionSettled(CurrentRegion)
            /\ UNCHANGED <<prompted, probed>>
       ELSE /\ prompted' = Append(prompted, "region")
            /\ probed' = TRUE
            /\ \/ \E r \in RegionAnswers : RegionSettled(r)
               \/ /\ pc' = "exited"
                  /\ exitCode' = 1
                  /\ exitMsg' = [kind |-> "region selection failed"]
                  /\ UNCHANGED selectedRegion
    /\ UNCHANGED <<inputs, selectedRoleName, sessionAssumeCalls, sessionCreds, subprocess,
                   sessionName, sawsConfigPath, singleTarget, targetRegionsCmd,
                   targetAccountNames, totalExecutions, spawned, wg, successfulExecutions,
                   finalSuccessCount, workers, stdout, logOut>>

\* AssumeSessionRole with the session going on whatever pkg.AssumeRole returned
AssumeSessionRoleUnchecked ==
    /\ pc = "assume"
    /\ baseCfgOk
    /\ \E resp \in StsResponses :
          /\ sessionAssumeCalls' = sessionAssumeCalls + 1
          /\ sessionCreds' = IF ValidCredentials(resp) THEN Bundle(0, 1) ELSE NoCreds
          /\ pc' = "session"
    /\ UNCHANGED <<inputs, selectedRoleName, selectedRegion, prompted, subprocess, sessionName,
                   sawsConfigPath, probed, singleTarget, targetRegionsCmd, targetAccountNames,
                   totalExecutions, spawned, wg, successfulExecutions, finalSuccessCount,
                   exitCode, exitMsg, workers, stdout, logOut>>

\* EstablishAWSContextAndAssumeRole: the base configuration and the one
\* pkg.AssumeRole call (its session name is NameSession's); main exits 1 on
\* the error returned
AssumeSessionRole ==
    /\ pc = "assume"
    /\ IF ~baseCfgOk
       THEN /\ pc' = "exited"
            /\ exitCode' = 1
            /\ exitMsg' = [kind |-> "base config failed"]
            /\ UNCHANGED <<sessionAssumeCalls, sessionCreds>>
       ELSE \E resp \in StsResponses :
              /\ sessionAssumeCalls' = sessionAssumeCalls + 1
              /\ IF ValidCredentials(resp)
                 THEN /\ sessionCreds' = Bundle(0, 1)
                      /\ pc' = "session"
                      /\ UNCHANGED <<exitCode, exitMsg>>
                 ELSE /\ pc' = "exited"
                      /\ exitCode' = 1
                      /\ exitMsg' = [kind |-> "assume role failed"]
                      /\ UNCHANGED sessionCreds
    /\ UNCHANGED <<inputs, selectedRoleName, selectedRegion, prompted, subprocess, sessionName,
                   sawsConfigPath, probed, singleTarget, targetRegionsCmd, targetAccountNames,
                   totalExecutions, spawned, wg, successfulExecutions, finalSuccessCount,
                   workers, stdout, logOut>>

\* what comes between the credentials and the subprocess: nothing for the
\* sub-shell; for SSM and ECS the target is listed and chosen and the aws
\* executable is looked up, which can fail or find nothing to connect to
Preparations ==
    IF sessionMode = "e" THEN {"ready"} ELSE {"ready", "nothing found", "failed"}

\* how cmd.Run() of the interactive subprocess can end
SessionOutcomes == {"nil", "ExitError", "not started", "other error"}

\* StartInteractiveSubShell, HandleSSMSession and HandleEcsExecSession after
\* the credentials: the subprocess is run with them; main exits 0 unless the
\* handler returned an error
RunSession ==
    /\ pc = "session"
    /\ \E prep \in Preparations :
          IF prep = "ready"
          THEN \E out \in SessionOutcomes :
                 /\ subprocess' = IF out = "not started" THEN "none" ELSE "started"
                 /\ exitCode' = IF out \in {"nil", "ExitError"} THEN 0 ELSE 1
                 /\ exitMsg' = IF out \in {"nil", "ExitError"}
                               THEN [kind |-> "session ended"]
                               ELSE [kind |-> "session failed"]
          ELSE /\ UNCHANGED subprocess
               /\ exitCode' = IF prep = "nothing found" THEN 0 ELSE 1
               /\ exitMsg' = IF prep = "nothing found"
                             THEN [kind |-> "nothing to connect to"]
                             ELSE [kind |-> "session failed"]
    /\ pc' = "exited"
    /\ UNCHANGED <<inputs, selectedRoleName, selectedRegion, prompted, sessionAssumeCalls,
                   sessionCreds, sessionName, sawsConfigPath, probed, singleTarget,
                   targetRegionsCmd, targetAccountNames, totalExecutions, spawned, wg,
                   successfulExecutions, finalSuccessCount, workers, stdout, logOut>>

\* a configuration without a roles section
NoRoles == <<>>

\* main has called EstablishAWSContextAndAssumeRole for one of the session modes
InitSession ==
    /\ sessionMode \in {"e", "ssm", "ecs"}
    /\ selector \in { <<>>, <<"a">>, <<"*">>, <<"prod">> }
    /\ sawsAccountEnv \in { <<>>, <<"b">> }
    /\ roleCmd \in RunRoleFlags
    /\ sawsRoleEnv \in { <<>>, <<"Admin">> }
    /\ roles \in { RunRoles, NoRoles }
    /\ contextRegionFlag \in { <<>>, <<"us-east-1">> }
    /\ sawsRegionEnv \in { <<>>, <<"eu-central-1">> }
    /\ commonRegions \in { <<>>, << <<"us-east-1">>, <<"eu-west-1">> >> }
    /\ ambient \in (IF contextRegionFlag = <<>> /\ sawsRegionEnv = <<>>
                    THEN AmbientResults ELSE {[err |-> TRUE, Region |-> <<>>]})
    /\ baseCfgOk \in BOOLEAN
    /\ accounts = RunRegistry
    /\ sessionNameSuffix = <<>>
    /\ roleToAssume = <<>>
    /\ pid = 0
    /\ verbose = FALSE
    /\ processAll = FALSE
    /\ cmdRegionsStr = <<>>
    /\ lookPathOk = TRUE
    /\ environ = <<>>
    /\ configFileOverride = CanonicalConfig.override
    /\ homeDirOk = CanonicalConfig.homeDirOk
    /\ fileExists = CanonicalConfig.fileExists
    /\ configLoads = CanonicalConfig.loads
    /\ sawsConfigPath = HomeConfigPath
    /\ probed = FALSE
    /\ matchedAccountNames = <<>>
    /\ selectedAccountName = <<>>
    /\ SessionIdle
    /\ pc = "establish"
    /\ targetRegionsCmd = <<>>
    /\ targetAccountNames = <<>>
    /\ totalExecutions = 0
    /\ spawned = 0
    /\ wg = 0
    /\ successfulExecutions = 0
    /\ finalSuccessCount = 0
    /\ exitCode = -1
    /\ exitMsg = [kind |-> "running"]
    /\ workers = <<>>
    /\ stdout = <<>>
    /\ logOut = {}

NextSession ==
    \/ MatchAccounts
    \/ ChooseAccount
    \/ SelectRole
    \/ SelectRegion
    \/ AssumeSessionRole
    \/ RunSession

SpecSession == InitSession /\ [][NextSession]_vars

\* ------------------------------------------------- AssumeRole, session name
\* here a string is the sequence of its characters
\* strings.ReplaceAll(s, old, new) for an old and a new of one character
ReplaceAll(s, old, new) == [i \in DOMAIN s |-> IF s[i] = old THEN new ELSE s[i]]

\* s[:n] if len(s) > n
Truncate(s, n) == IF Len(s) > n THEN SubSeq(s, 1, n) ELSE s

\* the decimal digits of a non-negative int
RECURSIVE Itoa(_)
Itoa(n) ==
    LET digit == <<"0", "1", "2", "3", "4", "5", "6", "7", "8", "9">>[(n % 10) + 1]
    IN  IF n < 10 THEN <<digit>> ELSE Append(Itoa(n \div 10), digit)

\* most characters of the role that go into the session name
MaxRolePartLen == 30

\* most characters of a session name
MaxSessionNameLen == 64

\* roleToAssume with "/" and " " replaced
Sanitized(role) == ReplaceAll(ReplaceAll(role, "/", "-"), " ", "_")

SafeRolePart(role) == Truncate(Sanitized(role), MaxRolePartLen)

\* fmt.Sprintf of sessionNameSuffix, safeRolePart and os.Getpid(), dashes between
FullSessionName(suffix, rolePart, p) == suffix \o <<"-">> \o rolePart \o <<"-">> \o Itoa(p)

\* SessionName with the name left at its full length
SessionNameUncut(suffix, role, p) == FullSessionName(suffix, SafeRolePart(role), p)

SessionName(suffix, role, p) ==
    Truncate(FullSessionName(suffix, SafeRolePart(role), p), MaxSessionNameLen)

\* AssumeRole up to the session name
NameSession ==
    /\ pc = "name"
    /\ sessionName' = SessionName(sessionNameSuffix, roleToAssume, pid)
    /\ pc' = "named"
    /\ UNCHANGED <<inputs, selectedRoleName, selectedRegion, prompted, sessionAssumeCalls,
                   sessionCreds, subprocess, sawsConfigPath, probed, singleTarget,
                   targetRegionsCmd, targetAccountNames, totalExecutions, spawned, wg,
                   successfulExecutions, finalSuccessCount, exitCode, exitMsg, workers,
                   stdout, logOut>>

Repeat(c, n) == [i \in 1..n |-> c]

\* the session tags of the callers, and a longer one
SessionTags ==
    { <<"C", "m", "d", "E", "x", "e", "c", "S", "e", "s", "s">>,
      <<"I", "n", "t", "e", "r", "a", "c", "t", "i", "v", "e", "S", "u", "b", "S", "h", "e", "l", "l">>,
      <<"S", "S", "M", "S", "e", "s", "s", "i", "o", "n", "S", "e", "t", "u", "p">>,
      <<"E", "C", "S", "E", "x", "e", "c", "S", "e", "s", "s", "i", "o", "n", "S", "e", "t", "u", "p">>,
      Repeat("t", 40) }

RoleChars == {"r", "/", " ", "-"}

RoleRunLengths == {0, 1, 29, 30, 35}

\* role names (paths included): two runs of one character each
RoleNames ==
    {Repeat(c1, n1) \o Repeat(c2, n2) :
        c1 \in RoleChars, c2 \in RoleChars, n1 \in RoleRunLengths, n2 \in {0, 1, 2}}

Pids == {1, 4242, 4194304}

\* pkg.AssumeRole is called
InitName ==
    /\ sessionNameSuffix \in SessionTags
    /\ roleToAssume \in RoleNames
    /\ pid \in Pids
    /\ pc = "name"
    /\ verbose = FALSE
    /\ processAll = FALSE
    /\ selector = <<>>
    /\ cmdRegionsStr = <<>>
    /\ lookPathOk = TRUE
    /\ ambient = [err |-> TRUE, Region |-> <<>>]
    /\ baseCfgOk = TRUE
    /\ accounts = RunRegistry
    /\ environ = <<>>
    /\ configFileOverride = CanonicalConfig.override
    /\ homeDirOk = CanonicalConfig.homeDirOk
    /\ fileExists = CanonicalConfig.fileExists
    /\ configLoads = CanonicalConfig.loads
    /\ sawsAccountEnv = <<>>
    /\ roles = RunRoles
    /\ roleCmd = <<>>
    /\ sawsRoleEnv = <<>>
    /\ contextRegionFlag = <<>>
    /\ sawsRegionEnv = <<>>
    /\ commonRegions = <<>>
    /\ sessionMode = "c"
    /\ sawsConfigPath = HomeConfigPath
    /\ probed = FALSE
    /\ matchedAccountNames = <<>>
    /\ selectedAccountName = <<>>
    /\ SessionIdle
    /\ targetRegionsCmd = <<>>
    /\ targetAccountNames = <<>>
    /\ totalExecutions = 0
    /\ spawned = 0
    /\ wg = 0
    /\ successfulExecutions = 0
    /\ finalSuccessCount = 0
    /\ exitCode = -1
    /\ exitMsg = [kind |-> "running"]
    /\ workers = <<>>
    /\ stdout = <<>>
    /\ logOut = {}

NextName == NameSession

SpecName == InitName /\ [][NextName]_vars

\* ---------------------------------------------------------------- C21
\* the names are in strictly ascending byte order: sorted, none twice
StrictlyAscending(names) ==
    \A i, j \in DOMAIN names : i < j => StrLess(names[i], names[j])

\* the accounts of the registry some pattern of the selector matches
MatchedBySomePattern ==
    {n \in DOMAIN accounts :
        \E p \in Range(SelectorPatterns(selector)) : Match(p, n).match}

\* C21: the account list the fan-out path resolves holds every matching
\* account of the registry (all of them with -a) exactly once, also when
\* several patterns match it, and is sorted lexicographically; it is a
\* function of the registry and the selector alone
C21_SortedEachOnce ==
    pc = "baseCfg" =>
        /\ StrictlyAscending(targetAccountNames)
        /\ Range(targetAccountNames) =
              (IF processAll THEN DOMAIN accounts ELSE MatchedBySomePattern)
        /\ Len(targetAccountNames) = Cardinality(Range(targetAccountNames))

\* an account matched by two patterns of the selector, among several resolved
C21_Witness ==
    /\ pc = "baseCfg"
    /\ ~processAll
    /\ Len(targetAccountNames) >= 2
    /\ \E n \in Range(targetAccountNames) :
          \E i, j \in DOMAIN SelectorPatterns(selector) :
             /\ i # j
             /\ Match(SelectorPatterns(selector)[i], n).match
             /\ Match(SelectorPatterns(selector)[j], n).match

\* ---------------------------------------------------------------- C22
\* the entries of the -regions value, as written between the commas
RegionEntries == Split(cmdRegionsStr, ",")

\* the places of the entries that are not blank
NamedEntries == {j \in DOMAIN RegionEntries : TrimSpace(RegionEntries[j]) # <<>>}

\* the place of the i-th entry that is not blank
NthNamedEntry(i) ==
    CHOOSE j \in NamedEntries : Cardinality({k \in NamedEntries : k < j}) = i - 1

Refused == {u \in DOMAIN workers : workers[u].sts \in {"error", "incomplete"}}

\* C23: a response of the impersonation call that lacks the credentials, the
\* access key, the secret key or the session token is a failure like a
\* transport error: the unit holds no credential bundle, starts no
\* subprocess, prints no result and is not counted as a success
C23_IncompleteIsFailure ==
    /\ \A u \in Refused :
          /\ workers[u].at = "done"
          /\ workers[u].creds = NoCreds
          /\ workers[u].env = <<>>
          /\ workers[u].ran = NotRun
          /\ u \notin ExitedZero
          /\ \A i \in DOMAIN stdout : stdout[i].unit # u
    /\ successfulExecutions <= Cardinality(DOMAIN workers \ Refused)

\* a run is over in which one unit got an incomplete response and another
\* unit ran its command
C23_Witness ==
    /\ pc = "exited"
    /\ \E u, v \in DOMAIN workers :
          /\ workers[u].sts = "incomplete"
          /\ workers[v].sts = "ok"
          /\ workers[v].ran # NotRun

\* ---------------------------------------------------------------- C24
IsPrefix(a, b) == Len(a) <= Len(b) /\ \A i \in DOMAIN a : a[i] = b[i]

\* the session name after the tag and its dash: role part, dash and pid
AfterTag == {i \in DOMAIN sessionName : i > Len(sessionNameSuffix) + 1}

\* the statement of C24 as the specification has it: the name is a prefix of
\* the tag, the role with its separators and spaces replaced, and the pid
C24_PrefixOfWholeRole ==
    pc = "named" =>
        IsPrefix(sessionName,
                 FullSessionName(sessionNameSuffix, Sanitized(roleToAssume), pid))

\* C24: for every session tag, role name and process id the session name
\* has at most 64 characters, is a prefix of
\* '<sessionTag>-<sanitized role, its first 30 characters>-<pid>' (all of
\* it when that fits into 64 characters), and its role part holds no path
\* separator and no space
C24_SessionNameBounded ==
    pc = "named" =>
        /\ Len(sessionName) <= 64
        /\ IsPrefix(sessionName,
                    FullSessionName(sessionNameSuffix,
                                    Truncate(Sanitized(roleToAssume), 30), pid))
        /\ Len(sessionName) =
              IF Len(sessionNameSuffix) + Len(Truncate(Sanitized(roleToAssume), 30))
                    + Len(Itoa(pid)) + 2 <= 64
              THEN Len(sessionNameSuffix) + Len(Truncate(Sanitized(roleToAssume), 30))
                    + Len(Itoa(pid)) + 2
              ELSE 64
        /\ \A i \in AfterTag : sessionName[i] \notin {"/", " "}

\* a role path of more than 30 characters has been named under a tag that
\* fills the name
C24_Witness ==
    /\ pc = "named"
    /\ Len(roleToAssume) > 30
    /\ \E i \in DOMAIN roleToAssume : roleToAssume[i] = "/"
    /\ Len(sessionName) = 64

\* ---------------------------------------------------------------- C25
\* C25: the account name of every spawned unit is a key of the registry,
\* with a selector as with -a, so no unit takes the branch for an account
\* whose identifier is not found: none logs it, and a unit that returned
\* without credentials has made its impersonation call
C25_UnitsAreRegistryKeys ==
    /\ Range(targetAccountNames) \subseteq DOMAIN accounts
    /\ \A u \in DOMAIN workers :
          /\ workers[u].accountName \in DOMAIN accounts
          /\ FailedBeforeRun(u) => workers[u].assumeCalls = 1
    /\ \A l \in logOut : l.kind # "account id not found"

\* a run with -a and the log shown is over, a unit of it having failed
\* before its command
C25_Witness ==
    /\ pc = "exited"
    /\ processAll
    /\ verbose
    /\ Len(workers) = 2
    /\ \E u \in DOMAIN workers : FailedBeforeRun(u)

\* ---------------------------------------------------------------- C26
\* C26: in command mode every unit that has made its impersonation call
\* has made it for the role -r resolves to: the mapped actual role if -r is
\* a friendly name of the roles map, the value of -r itself if it is not
C26_AliasResolvedPerUnit ==
    \A u \in DOMAIN workers :
        workers[u].assumeCalls >= 1 => workers[u].roleToAssume = ResolvedRole(roleCmd)

\* ---------------------------------------------------------------- C28
\* the units that have run their subprocess and returned
Finished == {u \in DOMAIN workers : workers[u].at = "done" /\ workers[u].ran # NotRun}

\* C28: the success counter is never negative, never more than the number
\* of units that have finished their subprocess, and so never more than
\* the number of units of the run; it never decreases, a step adds at most
\* one to it, and the step that adds is the return of one unit, which
\* returns once
C28_CounterBounded ==
    /\ [](/\ 0 <= successfulExecutions
          /\ successfulExecutions <= Cardinality(Finished)
          /\ Cardinality(Finished) <= Len(workers)
          /\ Len(workers) <= totalExecutions)
    /\ [][/\ successfulExecutions' >= successfulExecutions
          /\ successfulExecutions' <= successfulExecutions + 1
          /\ successfulExecutions' # successfulExecutions =>
                \E u \in DOMAIN workers :
                   /\ workers[u].at # "done"
                   /\ workers'[u].at = "done"
                   /\ \A v \in DOMAIN workers \ {u} : workers'[v] = workers[v]
          /\ \A u \in DOMAIN workers :
                workers[u].at = "done" => workers'[u] = workers[u]]_vars

\* two units have finished their subprocess and one of them is counted
C28_Witness ==
    /\ Cardinality(Finished) = 2
    /\ successfulExecutions = 1

\* ---------------------------------------------------------------- C29
\* C29: under a fair scheduler, with every impersonation call and every
\* subprocess returning, a run that starts its workers reaches its final
\* verdict with every worker returned and the barrier released; a worker
\* signals the barrier exactly when it returns, on the early returns as on
\* the full path, and the barrier counts nothing else but the spawns
C29_EveryRunJoins ==
    /\ (pc = "spawn") ~> (pc = "exited" /\ Joined /\ wg = 0 /\ Running = {})
    /\ [][/\ \A u \in DOMAIN workers :
                (workers[u].at # "done" /\ workers'[u].at = "done") => wg' = wg - 1
          /\ wg' < wg =>
                /\ wg' = wg - 1
                /\ Cardinality({u \in DOMAIN workers :
                                  workers[u].at # "done" /\ workers'[u].at = "done"}) = 1
          /\ wg' > wg => wg' = wg + 1 /\ Len(workers') = Len(workers) + 1]_vars

\* a run is over of which one worker returned before its command and
\* another after it
C29_Witness ==
    /\ pc = "exited"
    /\ Joined
    /\ \E u, v \in DOMAIN workers : FailedBeforeRun(u) /\ v \in Finished

\* ---------------------------------------------------------------- C27
\* the session flow has ended on a failed selection or a failed assumption
SelectionOrAssumptionFailed ==
    /\ pc = "exited"
    /\ exitMsg.kind \in {"selector did not match any accounts", "account selection failed",
                          "role selection failed", "could not determine role",
                          "region selection failed", "could not determine region",
                          "base config failed", "assume role failed"}

\* C27: a single-target flow (sub-shell, SSM session, ECS exec) assumes a
\* role at most once, and exactly once before it ends well or starts its
\* subprocess; the subprocess is started only with the credentials of that
\* one successful assumption in hand; when the selection of account, role
\* or region or the assumption fails no subprocess is started and the
\* process exits 1
C27_OneAssumptionThenSubprocess ==
    /\ [](/\ sessionAssumeCalls <= 1
          /\ subprocess = "started" =>
                sessionAssumeCalls = 1 /\ sessionCreds # NoCreds /\ pc = "exited"
          /\ (pc = "exited" /\ exitCode = 0) =>
                sessionAssumeCalls = 1 /\ sessionCreds # NoCreds
          /\ SelectionOrAssumptionFailed => subprocess = "none" /\ exitCode = 1
          /\ (pc = "exited" /\ sessionCreds = NoCreds) => SelectionOrAssumptionFailed)
    /\ [][subprocess' # subprocess =>
             /\ subprocess' = "started"
             /\ sessionAssumeCalls = 1
             /\ sessionCreds # NoCreds
             /\ UNCHANGED <<sessionAssumeCalls, sessionCreds>>]_vars

\* an SSM session has been started and has ended, after a prompt for the account
C27_Witness ==
    /\ pc = "exited"
    /\ sessionMode = "ssm"
    /\ subprocess = "started"
    /\ exitCode = 0
    /\ prompted # <<>>

\* ---------------------------------------------------------------- C30
\* the value of the first of two sources that is set
FirstSet(flag, env) == IF flag # <<>> THEN flag ELSE env

\* the accounts a selector of the single-target flow names: the account of
\* that very name, else the accounts it matches as a pattern
Named(sel) ==
    IF sel \in DOMAIN accounts THEN {sel}
    ELSE {n \in DOMAIN accounts : Match(sel, n).match}

Prompted(what) == \E i \in DOMAIN prompted : prompted[i] = what

\* the statement of C30 on the prompts as the specification has it: a
\* prompt is shown only when the flag and the environment variable before
\* it are both empty
C30_PromptOnlyWhenUnset ==
    /\ Prompted("account") => selector = <<>> /\ sawsAccountEnv = <<>>
    /\ Prompted("role") => roleCmd = <<>> /\ sawsRoleEnv = <<>>
    /\ Prompted("region") => contextRegionFlag = <<>> /\ sawsRegionEnv = <<>>

\* C30: in the single-target flows the account selector, the role and the
\* region are each taken from the flag, else from SAWS_ACCOUNT / SAWS_ROLE /
\* SAWS_REGION, else from a prompt; the environment variable counts only
\* when the flag is empty, and the prompt is shown only when both are
\* empty, or, for the account, when the selector matches several accounts
\* (the prompt then offers these).  A selector matching exactly one account
\* selects it without a prompt; one matching none ends the run with an error.
C30_FlagThenEnvThenPrompt ==
    /\ Prompted("account") =>
          \/ selector = <<>> /\ sawsAccountEnv = <<>>
          \/ Cardinality(Named(FirstSet(selector, sawsAccountEnv))) > 1
    /\ Prompted("role") => roleCmd = <<>> /\ sawsRoleEnv = <<>>
    /\ Prompted("region") => contextRegionFlag = <<>> /\ sawsRegionEnv = <<>>
    /\ (selectedAccountName # <<>> /\ FirstSet(selector, sawsAccountEnv) # <<>>) =>
          selectedAccountName \in Named(FirstSet(selector, sawsAccountEnv))
    /\ (pc # "establish" /\ Cardinality(Named(FirstSet(selector, sawsAccountEnv))) = 1) =>
          /\ Named(FirstSet(selector, sawsAccountEnv)) = {selectedAccountName}
          /\ ~Prompted("account")
    /\ (pc # "establish" /\ FirstSet(selector, sawsAccountEnv) # <<>>
           /\ Named(FirstSet(selector, sawsAccountEnv)) = {}) =>
          /\ pc = "exited"
          /\ exitCode = 1
          /\ exitMsg.kind = "selector did not match any accounts"
          /\ prompted = <<>>
    /\ (selectedAccountName # <<>> /\ selector = <<>> /\ sawsAccountEnv = <<>>) =>
          Prompted("account")
    /\ selectedRoleName # <<>> =>
          IF roleCmd # <<>>
          THEN selectedRoleName = ResolvedRole(roleCmd) /\ ~Prompted("role")
          ELSE IF sawsRoleEnv # <<>>
          THEN selectedRoleName = ResolvedRole(sawsRoleEnv) /\ ~Prompted("role")
          ELSE Prompted("role")
    /\ selectedRegion # <<>> =>
          IF contextRegionFlag # <<>>
          THEN selectedRegion = contextRegionFlag /\ ~Prompted("region") /\ ~probed
          ELSE IF sawsRegionEnv # <<>>
          THEN selectedRegion = sawsRegionEnv /\ ~Prompted("region") /\ ~probed
          ELSE Prompted("region")

\* the account came from a prompt among the several matches of the -s
\* flag, the role from SAWS_ROLE, the region from a prompt
C30_Witness ==
    /\ pc = "assume"
    /\ selector = <<"*">>
    /\ sawsAccountEnv = <<"b">>
    /\ selectedAccountName = <<"a">>
    /\ roleCmd = <<>>
    /\ sawsRoleEnv = <<"Admin">>
    /\ selectedRoleName = <<"OrganizationAccountAccessRole">>
    /\ prompted = <<"account", "region">>

====
